---------------------------- MODULE Spec2Model ----------------------------
(***************************************************************************)
(* A model of the income-investing portfolio analyzer: the ticker-format   *)
(* expander, the historical price resolver, the cross-validation verifier  *)
(* and the record builder of src/data_fetcher.py and src/verification.py,  *)
(* and a run of the program (src/main.py, src/Analysis.py).                *)
(*                                                                         *)
(* Conventions.                                                            *)
(*  - Money is counted in cents (a price of 100.50 is 10050); a quotient   *)
(*    is kept exact as numerator/denominator until the code rounds it.     *)
(*    Where the last bits of the code's float decide (a rounding or a      *)
(*    comparison exactly half way), the float is computed bit for bit.     *)
(*  - A calendar date string is the text "YYYY-MM-DD"; a Timestamp is the  *)
(*    number of days since 1970-01-01.  to_datetime parses, strftime       *)
(*    formats.                                                             *)
(*  - Python's None is the empty tuple <<>> and a present value v is <<v>>.*)
(*  - The market-data provider (yfinance) is a black box: the reply to a   *)
(*    call is any reply its interface allows (an error, or rows inside the *)
(*    requested window in date order), chosen when the call is made; for a *)
(*    run of the whole program, when the run starts.                       *)
(*                                                                         *)
(* src/Analysis.py as it stands does not compile: line 26 (results = [])   *)
(* starts at column 0 inside the body of main and line 27 is indented      *)
(* again.  A run of the program ends when the file is loaded (Spec); the   *)
(* functions of src/data_fetcher.py and src/verification.py load and are   *)
(* modelled call by call.  The statements of main are modelled as they are *)
(* written (SpecMain): what they do in a copy of the file whose line 26 is *)
(* indented like its neighbours, which no run of the shipped file reaches. *)
(***************************************************************************)
EXTENDS Integers, Sequences, FiniteSets, TLC

VARIABLES
    hist,                 \* frame of get_historical_price_with_fallback
    ver,                  \* frame of verify_price_with_alternative_source
    pc,                   \* position of the program
    market,               \* what the provider would answer during the run
    etf_index,            \* index in INCOME_ETFS of the symbol main is processing
    results,              \* main's results list (None: never bound)
    verification_results, \* main's verification_results list (None: never bound)
    working_etfs,         \* main's working_etfs (None: never bound)
    failed_etfs,          \* main's failed_etfs (None: never bound)
    journal,              \* the calls main has made, in order (observation only)
    cur,                  \* frame of get_current_market_price
    dvd,                  \* frame of get_dividends_for_period
    rec,                  \* frame of process_etf_data
    fmt                   \* frame of get_international_ticker_formats

vars == <<hist, ver, pc, market, etf_index, results, verification_results,
          working_etfs, failed_etfs, journal, cur, dvd, rec, fmt>>

-----------------------------------------------------------------------------
(* Bounds of the model *)

\* how many symbols of the configured list a run is given
NumSymbols == 2

\* the most rows one provider reply carries
MaxRows == 2

-----------------------------------------------------------------------------
(* Optional values *)

None == <<>>

Some(v) == <<v>>

IsNone(x) == x = <<>>

Get(x) == x[1]

\* Op applied to the value of e, e evaluated once
Let(e, Op(_)) == CHOOSE r \in {Op(x) : x \in {e}} : TRUE

-----------------------------------------------------------------------------
(* Strings, dates *)

endswith(s, suffix) ==
    /\ Len(s) >= Len(suffix)
    /\ SubSeq(s, Len(s) - Len(suffix) + 1, Len(s)) = suffix

\* str.contains(sub): sub occurs somewhere in s
str_contains(s, sub) ==
    \E k \in 1..(Len(s) - Len(sub) + 1) : SubSeq(s, k, k + Len(sub) - 1) = sub

DigitStr(d) == SubSeq("0123456789", d + 1, d + 1)

DigitVal(c) ==
    CASE c = "0" -> 0 [] c = "1" -> 1 [] c = "2" -> 2 [] c = "3" -> 3
      [] c = "4" -> 4 [] c = "5" -> 5 [] c = "6" -> 6 [] c = "7" -> 7
      [] c = "8" -> 8 [] c = "9" -> 9

RECURSIVE ParseNat(_)
ParseNat(s) ==
    IF Len(s) = 0 THEN 0
    ELSE 10 * ParseNat(SubSeq(s, 1, Len(s) - 1)) + DigitVal(SubSeq(s, Len(s), Len(s)))

\* a number as text, zero-padded to width digits (%Y, %m, %d)
RECURSIVE Pad(_, _)
Pad(n, width) ==
    IF width = 0 THEN ""
    ELSE Pad(n \div 10, width - 1) \o DigitStr(n % 10)

\* days since 1970-01-01 of the civil date y-m-d (proleptic Gregorian)
DaysFromCivil(y, m, d) ==
    LET yy  == IF m <= 2 THEN y - 1 ELSE y
        era == yy \div 400
        yoe == yy - era * 400
        mp  == IF m > 2 THEN m - 3 ELSE m + 9
        doy == (153 * mp + 2) \div 5 + d - 1
        doe == yoe * 365 + yoe \div 4 - yoe \div 100 + doy
    IN  era * 146097 + doe - 719468

\* the civil date <<y, m, d>> of a day number
CivilFromDays(z) ==
    LET zz  == z + 719468
        era == zz \div 146097
        doe == zz - era * 146097
        yoe == (doe - doe \div 1460 + doe \div 36524 - doe \div 146096) \div 365
        doy == doe - (365 * yoe + yoe \div 4 - yoe \div 100)
        mp  == (5 * doy + 2) \div 153
        d   == doy - (153 * mp + 2) \div 5 + 1
        m   == IF mp < 10 THEN mp + 3 ELSE mp - 9
        y   == yoe + era * 400 + (IF m <= 2 THEN 1 ELSE 0)
    IN  <<y, m, d>>

IsDigits(s) == \A k \in 1..Len(s) : \E d \in 0..9 : SubSeq(s, k, k) = DigitStr(d)

DaysInMonth(y, m) ==
    IF m \in {4, 6, 9, 11} THEN 30
    ELSE IF m # 2 THEN 31
    ELSE IF y % 4 = 0 /\ (y % 100 # 0 \/ y % 400 = 0) THEN 29
    ELSE 28

\* does pd.Timestamp / pd.to_datetime accept the text?  The texts of the
\* model are of the shape YYYY-MM-DD or no date under any reading (such as
\* "Unknown"); a month or a day that the calendar does not have is refused,
\* and so is a day outside the span of a nanosecond Timestamp (1677-09-22
\* to 2262-04-11)
is_date(date_str) ==
    /\ Len(date_str) = 10
    /\ SubSeq(date_str, 5, 5) = "-"
    /\ SubSeq(date_str, 8, 8) = "-"
    /\ IsDigits(SubSeq(date_str, 1, 4))
    /\ IsDigits(SubSeq(date_str, 6, 7))
    /\ IsDigits(SubSeq(date_str, 9, 10))
    /\ LET y == ParseNat(SubSeq(date_str, 1, 4))
           m == ParseNat(SubSeq(date_str, 6, 7))
           d == ParseNat(SubSeq(date_str, 9, 10))
       IN  /\ m \in 1..12
           /\ d \in 1..DaysInMonth(y, m)
           /\ DaysFromCivil(y, m, d) >= DaysFromCivil(1677, 9, 22)
           /\ DaysFromCivil(y, m, d) <= DaysFromCivil(2262, 4, 11)

\* str(e) of the exception a text that is no date raises
date_error(date_str) == "no date: " \o date_str

\* pd.Timestamp("YYYY-MM-DD") / pd.to_datetime("YYYY-MM-DD"), of a text that
\* is a date
to_datetime(date_str) ==
    DaysFromCivil(ParseNat(SubSeq(date_str, 1, 4)),
                  ParseNat(SubSeq(date_str, 6, 7)),
                  ParseNat(SubSeq(date_str, 9, 10)))

\* Timestamp.strftime('%Y-%m-%d')
strftime_ymd(ts) ==
    LET c == CivilFromDays(ts)
    IN  Pad(c[1], 4) \o "-" \o Pad(c[2], 2) \o "-" \o Pad(c[3], 2)

\* Timestamp.strftime('%d/%m/%Y')
strftime_dmy(ts) ==
    LET c == CivilFromDays(ts)
    IN  Pad(c[3], 2) \o "/" \o Pad(c[2], 2) \o "/" \o Pad(c[1], 4)

\* lines 32-38: the date as DD/MM/YYYY; a text that is no date comes back
\* as it is (the except of lines 37-38)
format_date_dd_mm_yyyy(date_str) ==
    IF is_date(date_str) THEN strftime_dmy(to_datetime(date_str))
    ELSE date_str

-----------------------------------------------------------------------------
(* Exact fractions *)

Abs(n) == IF n >= 0 THEN n ELSE 0 - n

RECURSIVE GCD(_, _)
GCD(a, b) == IF b = 0 THEN a ELSE GCD(b, a % b)

\* the fraction n/d in lowest terms (d > 0)
Frac(n, d) ==
    LET g == GCD(Abs(n), d)
    IN  [num |-> n \div g, den |-> d \div g]

FracOfInt(n) == [num |-> n, den |-> 1]

FracMul(x, y) ==
    LET g1 == GCD(Abs(x.num), y.den)
        g2 == GCD(Abs(y.num), x.den)
    IN  IF x.num = 0 \/ y.num = 0 THEN FracOfInt(0)
        ELSE [num |-> (x.num \div g1) * (y.num \div g2),
              den |-> (x.den \div g2) * (y.den \div g1)]

\* x / y for y > 0
FracDiv(x, y) == FracMul(x, [num |-> y.den, den |-> y.num])

FracAdd(x, y) ==
    LET g == GCD(x.den, y.den)
    IN  Frac(x.num * (y.den \div g) + y.num * (x.den \div g), (x.den \div g) * y.den)

FracSub(x, y) == FracAdd(x, [num |-> 0 - y.num, den |-> y.den])

\* count is a multiple of 1/scale nearest to the fraction x: it is x rounded
\* to that precision, whichever way a value exactly half way goes
nearest_to(count, x, scale) ==
    LET y == FracMul(x, FracOfInt(scale))
    IN  2 * Abs(count * y.den - y.num) <= y.den

-----------------------------------------------------------------------------
(* Binary floating point.  The program computes with Python floats (IEEE 754
   binary64, round to nearest, ties to even).  A natural number too wide for
   one integer is a sequence of limbs, least significant first, with no
   leading zero limb (zero is the empty sequence); a float is a sign, a
   53-bit significand and a binary exponent: value = m * 2^e.  Overflow and
   subnormal numbers lie outside the magnitudes of prices and amounts.

   The model carries a number of the program as the exact fraction its float
   approximates.  For prices in whole cents and the amounts invested here,
   the error of the float (a few units in the last of its 53 bits) is
   smaller than the distance from the fraction to the nearest point where a
   comparison or a rounding changes its outcome, unless the fraction lies
   exactly on such a point.  So the fraction decides every comparison and
   every rounding except at an exact tie: there the last bits of the float
   decide, and the float is computed operation by operation as the code
   computes it. *)

\* a limb holds 20 bits
Limb == 2^20

\* the bits of a significand: 52 stored and the leading one
MantissaBits == 52 + 1

\* bits dropped to read the 20 leading bits of a divisor of 53 bits
LeadShift == MantissaBits - 20

\* exponents further apart than this: the smaller term is below half a unit
\* in the last place of the sum
AlignLimit == MantissaBits + 2

RECURSIVE bn_trim(_)
bn_trim(a) ==
    IF a = <<>> THEN <<>>
    ELSE IF a[Len(a)] = 0 THEN bn_trim(SubSeq(a, 1, Len(a) - 1))
    ELSE a

RECURSIVE bn_of_int(_)
bn_of_int(n) == IF n = 0 THEN <<>> ELSE <<n % Limb>> \o bn_of_int(n \div Limb)

RECURSIVE bn_to_int(_)
bn_to_int(a) == IF a = <<>> THEN 0 ELSE a[1] + Limb * bn_to_int(Tail(a))

RECURSIVE bn_add_carry(_, _, _)
bn_add_carry(a, b, c) ==
    IF a = <<>> /\ b = <<>> THEN (IF c = 0 THEN <<>> ELSE <<c>>)
    ELSE LET x == IF a = <<>> THEN 0 ELSE a[1]
             y == IF b = <<>> THEN 0 ELSE b[1]
             s == x + y + c
         IN  <<s % Limb>> \o bn_add_carry(IF a = <<>> THEN <<>> ELSE Tail(a),
                                          IF b = <<>> THEN <<>> ELSE Tail(b),
                                          s \div Limb)

bn_add(a, b) == Let(<<a, b>>, LAMBDA v : bn_add_carry(v[1], v[2], 0))

\* a - b for a >= b
RECURSIVE bn_sub_borrow(_, _, _)
bn_sub_borrow(a, b, c) ==
    IF a = <<>> THEN <<>>
    ELSE LET y == IF b = <<>> THEN 0 ELSE b[1]
             s == a[1] - y - c
         IN  <<s % Limb>> \o bn_sub_borrow(Tail(a),
                                           IF b = <<>> THEN <<>> ELSE Tail(b),
                                           IF s < 0 THEN 1 ELSE 0)

bn_sub(a, b) == Let(<<a, b>>, LAMBDA v : bn_trim(bn_sub_borrow(v[1], v[2], 0)))

\* -1, 0 or 1 as a is below, equal to or above b
RECURSIVE bn_cmp_from(_, _, _)
bn_cmp_from(a, b, k) ==
    IF k = 0 THEN 0
    ELSE IF a[k] < b[k] THEN 0 - 1
    ELSE IF a[k] > b[k] THEN 1
    ELSE bn_cmp_from(a, b, k - 1)

bn_cmp(a, b) ==
    Let(<<a, b>>, LAMBDA v :
        IF Len(v[1]) < Len(v[2]) THEN 0 - 1
        ELSE IF Len(v[1]) > Len(v[2]) THEN 1
        ELSE bn_cmp_from(v[1], v[2], Len(v[1])))

\* a * k for a factor k of at most 1024
RECURSIVE bn_mul_small_carry(_, _, _)
bn_mul_small_carry(a, k, c) ==
    IF a = <<>> THEN (IF c = 0 THEN <<>> ELSE <<c>>)
    ELSE LET s == a[1] * k + c
         IN  <<s % Limb>> \o bn_mul_small_carry(Tail(a), k, s \div Limb)

bn_mul_small(a, k) ==
    IF k = 0 THEN <<>> ELSE Let(a, LAMBDA v : bn_mul_small_carry(v, k, 0))

bn_odd(a) == a # <<>> /\ a[1] % 2 = 1

\* quotient and remainder of a by a divisor d of at most 1024, from the top limb
RECURSIVE bn_div_small_from(_, _, _, _)
bn_div_small_from(a, d, k, r) ==
    IF k = 0 THEN [q |-> <<>>, r |-> r]
    ELSE LET n == r * Limb + a[k]
         IN  Let(bn_div_small_from(a, d, k - 1, n % d), LAMBDA low :
                 [q |-> low.q \o <<n \div d>>, r |-> low.r])

bn_div_small(a, d) ==
    Let(a, LAMBDA v :
        Let(bn_div_small_from(v, d, Len(v), 0), LAMBDA s :
            [q |-> bn_trim(s.q), r |-> s.r]))

bn_halve(a) == bn_div_small(a, 2).q

RECURSIVE Pow2(_)
Pow2(k) == IF k = 0 THEN 1 ELSE 2 * Pow2(k - 1)

RECURSIVE bn_shl(_, _)
bn_shl(a, k) ==
    IF k = 0 THEN a
    ELSE IF k >= 10 THEN Let(bn_mul_small(a, 1024), LAMBDA v : bn_shl(v, k - 10))
    ELSE bn_mul_small(a, Pow2(k))

RECURSIVE int_bits(_)
int_bits(n) == IF n = 0 THEN 0 ELSE 1 + int_bits(n \div 2)

bn_bits(a) ==
    Let(a, LAMBDA v : IF v = <<>> THEN 0 ELSE 20 * (Len(v) - 1) + int_bits(v[Len(v)]))

\* a * b, limb by limb of b, each limb as two factors of 10 bits
RECURSIVE bn_mul_limbs(_, _, _)
bn_mul_limbs(a, b, k) ==
    IF k > Len(b) THEN <<>>
    ELSE Let(bn_mul_limbs(a, b, k + 1), LAMBDA high :
             bn_add(bn_add(bn_mul_small(a, b[k] % 1024),
                           bn_mul_small(bn_mul_small(a, b[k] \div 1024), 1024)),
                    IF high = <<>> THEN <<>> ELSE <<0>> \o high))

bn_mul(a, b) == Let(<<a, b>>, LAMBDA v : bn_mul_limbs(v[1], v[2], 1))

\* a shifted right by k bits: the quotient, the last bit shifted out and
\* whether any bit below it was set
RECURSIVE bn_shr_sticky(_, _, _)
bn_shr_sticky(a, k, sticky) ==
    IF k = 0 THEN [q |-> a, sticky |-> sticky]
    ELSE LET j == IF k >= 10 THEN 10 ELSE k
         IN  Let(bn_div_small(a, Pow2(j)), LAMBDA s :
                 bn_shr_sticky(s.q, k - j, sticky \/ s.r # 0))

bn_shr_round(a, k) ==
    IF k = 0 THEN [q |-> a, round |-> FALSE, sticky |-> FALSE]
    ELSE Let(bn_shr_sticky(a, k - 1, FALSE), LAMBDA s :
             [q |-> bn_halve(s.q), round |-> bn_odd(s.q), sticky |-> s.sticky])

\* round to nearest, ties to even
bn_round_nearest_even(shifted, sticky) ==
    Let(shifted, LAMBDA s :
        IF s.round /\ (s.sticky \/ sticky \/ bn_odd(s.q)) THEN bn_add(s.q, <<1>>) ELSE s.q)

Float(neg, m, e) == [neg |-> neg, m |-> m, e |-> e]

float_zero == Float(FALSE, <<>>, 0)

\* the float nearest to M * 2^e (plus a non-zero tail below M when sticky)
float_round(neg, significand, e, sticky) ==
    Let(significand, LAMBDA M :
        IF M = <<>> THEN float_zero
        ELSE Let(bn_bits(M), LAMBDA b :
                 IF b <= MantissaBits
                 THEN Float(neg, bn_shl(M, MantissaBits - b), e - (MantissaBits - b))
                 ELSE Let(bn_round_nearest_even(bn_shr_round(M, b - MantissaBits), sticky),
                          LAMBDA m :
                              IF bn_bits(m) > MantissaBits
                              THEN Float(neg, bn_halve(m), e + (b - MantissaBits) + 1)
                              ELSE Float(neg, m, e + (b - MantissaBits)))))

float_of_int(n) == float_round(n < 0, bn_of_int(Abs(n)), 0, FALSE)

float_neg(a) == Let(a, LAMBDA x : IF x.m = <<>> THEN x ELSE Float(~x.neg, x.m, x.e))

float_abs(a) == Let(a, LAMBDA x : Float(FALSE, x.m, x.e))

float_add_aligned(x, y, e) ==
    Let(<<bn_shl(x.m, x.e - e), bn_shl(y.m, y.e - e)>>, LAMBDA M :
        IF x.neg = y.neg THEN float_round(x.neg, bn_add(M[1], M[2]), e, FALSE)
        ELSE Let(bn_cmp(M[1], M[2]), LAMBDA c :
                 IF c = 0 THEN float_zero
                 ELSE IF c > 0 THEN float_round(x.neg, bn_sub(M[1], M[2]), e, FALSE)
                 ELSE float_round(y.neg, bn_sub(M[2], M[1]), e, FALSE)))

float_add(a, b) ==
    Let(<<a, b>>, LAMBDA v :
        LET x == v[1]
            y == v[2]
        IN  IF x.m = <<>> THEN y
            ELSE IF y.m = <<>> THEN x
            ELSE IF x.e - y.e > AlignLimit THEN x
            ELSE IF y.e - x.e > AlignLimit THEN y
            ELSE float_add_aligned(x, y, IF x.e < y.e THEN x.e ELSE y.e))

float_sub(x, y) == float_add(x, float_neg(y))

float_mul(a, b) ==
    Let(<<a, b>>, LAMBDA v :
        LET x == v[1]
            y == v[2]
        IN  IF x.m = <<>> \/ y.m = <<>> THEN float_zero
            ELSE float_round(x.neg # y.neg, bn_mul(x.m, y.m), x.e + y.e, FALSE))

\* the largest digit g <= guess with d * g <= n
RECURSIVE bn_digit_fit(_, _, _)
bn_digit_fit(n, d, guess) ==
    IF bn_cmp(bn_mul_small(d, guess), n) > 0 THEN bn_digit_fit(n, d, guess - 1) ELSE guess

\* the digit n \div d for n < 1024 * d and d of 53 bits: guessed from the
\* leading bits of n and d (a guess never below the digit), then fitted
bn_digit(n, d) ==
    Let(<<bn_to_int(bn_shr_sticky(n, LeadShift, FALSE).q),
          bn_to_int(bn_shr_sticky(d, LeadShift, FALSE).q)>>, LAMBDA lead :
        Let((lead[1] + 1) \div lead[2], LAMBDA guess :
            bn_digit_fit(n, d, IF guess > 1023 THEN 1023 ELSE guess)))

\* k more quotient digits of 10 bits of the long division of r by d (r < d)
RECURSIVE bn_divide(_, _, _, _)
bn_divide(q, r, d, k) ==
    IF k = 0 THEN [q |-> q, r |-> r]
    ELSE Let(bn_mul_small(r, 1024), LAMBDA n :
         Let(bn_digit(n, d), LAMBDA g :
         Let(<<bn_add(bn_mul_small(q, 1024), bn_of_int(g)),
               bn_sub(n, bn_mul_small(d, g))>>, LAMBDA w :
             bn_divide(w[1], w[2], d, k - 1))))

\* x / y for y # 0: 60 quotient bits (6 digits), the remainder as the tail
float_div(a, b) ==
    Let(<<a, b>>, LAMBDA v :
        LET x == v[1]
            y == v[2]
        IN  IF x.m = <<>> THEN float_zero
            ELSE Let(bn_cmp(x.m, y.m) >= 0, LAMBDA first :
                 Let(bn_divide(IF first THEN <<1>> ELSE <<>>,
                               IF first THEN bn_sub(x.m, y.m) ELSE x.m,
                               y.m, 6), LAMBDA d :
                     float_round(x.neg # y.neg, d.q, x.e - y.e - 60, d.r # <<>>))))

\* x <= y
float_le(a, b) ==
    Let(<<a, b>>, LAMBDA v :
        LET x == v[1]
            y == v[2]
            below == \/ x.e < y.e
                     \/ x.e = y.e /\ bn_cmp(x.m, y.m) <= 0
            above == \/ x.e > y.e
                     \/ x.e = y.e /\ bn_cmp(x.m, y.m) >= 0
        IN  IF x.m = <<>> THEN y.m = <<>> \/ ~y.neg
            ELSE IF y.m = <<>> THEN x.neg
            ELSE IF x.neg # y.neg THEN x.neg
            ELSE IF x.neg THEN above ELSE below)

\* Python's round(x, ndigits) as a count of 10^-ndigits units (scale =
\* 10^ndigits): the decimal nearest to the float's own binary value, a tie
\* (only when that value is exactly half way) to the even count
float_round_decimal(a, scale) ==
    Let(a, LAMBDA x :
        IF x.m = <<>> THEN 0
        ELSE Let(bn_mul_small(x.m, scale), LAMBDA M :
             Let(IF x.e >= 0 THEN bn_to_int(bn_shl(M, x.e))
                 ELSE IF 0 - x.e > bn_bits(M) + 1 THEN 0
                 ELSE bn_to_int(bn_round_nearest_even(bn_shr_round(M, 0 - x.e), FALSE)),
                 LAMBDA n : IF x.neg THEN 0 - n ELSE n)))

\* the float a data provider gives for an amount of whole cents
float_of_cents(c) == float_div(float_of_int(c), float_of_int(100))

\* the sum of amounts of whole cents as sum() and Series.sum() compute it:
\* from 0, left to right (a series of fewer than 8 rows)
RECURSIVE float_sum(_, _, _)
float_sum(amounts, k, acc) ==
    IF k > Len(amounts) THEN acc
    ELSE Let(float_add(acc, float_of_cents(amounts[k])), LAMBDA s :
             float_sum(amounts, k + 1, s))

\* round(x, digits) of the float x as a count of 1/scale (scale = 10^digits);
\* units is the exact fraction x * scale stands for
round_float(units, x, scale) ==
    IF units.den = 2 THEN float_round_decimal(x, scale)
    ELSE (2 * units.num + units.den) \div (2 * units.den)

-----------------------------------------------------------------------------
(* Configuration: src/symbols.py *)

\* the head of the configured list
ConfiguredSymbols == <<"FSCO", "EIC", "OXLC", "GOF">>

INCOME_ETFS == SubSeq(ConfiguredSymbols, 1, NumSymbols)

INVESTMENT_PER_ETF == 10000

START_DATE == "2025-01-02"

\* the day of the run: pd.Timestamp.today()
Today == to_datetime("2025-06-30")

\* the status texts; the emoji that opens each is written as a word in
\* brackets: a green check mark, a yellow circle, a red circle
STATUS_VERIFIED == "[check] VERIFIED"

STATUS_ALT_SOURCE == "[yellow] ALT SOURCE"

STATUS_NO_DATA == "[red] NO DATA"

STATUS_ERROR == "[red] ERROR"

RED_CIRCLE == "[red]"

-----------------------------------------------------------------------------
(* Ticker Format Expander: get_international_ticker_formats *)

ExchangeSuffixes == <<".TO", ".TSE", ".AX", ".L", ".NE">>

NeoSymbols == {"HHIS", "MSTE"}

\* a faulty variant of line 15: the test for a suffix never succeeds
has_no_exchange_suffix(symbol) == FALSE

\* line 15: any(symbol.endswith(suffix) for suffix in [...])
HasExchangeSuffix(symbol) ==
    \E k \in 1..Len(ExchangeSuffixes) : endswith(symbol, ExchangeSuffixes[k])

get_international_ticker_formats(symbol) ==
    LET base == <<symbol>>
        withSuffixes ==
            IF ~HasExchangeSuffix(symbol)
            THEN base \o <<symbol \o ".TO", symbol \o ".TSE",
                           symbol \o ".AX", symbol \o ".L">>
            ELSE base
    IN  IF symbol \in NeoSymbols
        THEN Append(withSuffixes, symbol \o ".NE")
        ELSE withSuffixes

\* the frame of a call that is not running
Idle == [status |-> "idle"]

\* line 12: symbols_to_try = [symbol]
formats_enter(symbol) ==
    [status         |-> "suffixes",
     symbol         |-> symbol,
     symbols_to_try |-> <<symbol>>,
     result         |-> None]

\* lines 15-24: the four exchange suffixes, unless the symbol has a suffix
formats_suffixes(f) ==
    [f EXCEPT !.status = "neo",
              !.symbols_to_try =
                  IF ~HasExchangeSuffix(f.symbol)
                  THEN Append(Append(Append(Append(@, f.symbol \o ".TO"),
                                            f.symbol \o ".TSE"),
                                     f.symbol \o ".AX"),
                              f.symbol \o ".L")
                  ELSE @]

\* lines 27-28: the NEO form of the two enumerated symbols
formats_neo(f) ==
    [f EXCEPT !.status = "return",
              !.symbols_to_try = IF f.symbol \in NeoSymbols
                                 THEN Append(@, f.symbol \o ".NE")
                                 ELSE @]

\* line 30
formats_return(f) == [f EXCEPT !.status = "returned", !.result = Some(f.symbols_to_try)]

\* the symbols the expander is exercised on: plain and NEO-exchange bases,
\* bare and with an ending that is, or only resembles, an exchange suffix
FormatBases == {"FSCO", "HHIS", "MSTE", "XYZ"}

FormatEndings == {"", ".TO", ".TSE", ".AX", ".L", ".NE", ".to", ".LX", "L"}

FormatSymbols == {b \o e : b \in FormatBases, e \in FormatEndings}

InitFormats ==
    /\ \E symbol \in FormatSymbols : fmt = formats_enter(symbol)
    /\ hist = Idle
    /\ ver = Idle
    /\ cur = Idle
    /\ dvd = Idle
    /\ rec = Idle
    /\ pc = "idle"
    /\ market = None
    /\ etf_index = 0
    /\ results = None
    /\ verification_results = None
    /\ working_etfs = None
    /\ failed_etfs = None
    /\ journal = <<>>

FormatsSuffixes ==
    /\ fmt.status = "suffixes"
    /\ fmt' = formats_suffixes(fmt)
    /\ UNCHANGED <<hist, ver, cur, dvd, rec, pc, market, etf_index, results, verification_results,
                   working_etfs, failed_etfs, journal>>

FormatsNeo ==
    /\ fmt.status = "neo"
    /\ fmt' = formats_neo(fmt)
    /\ UNCHANGED <<hist, ver, cur, dvd, rec, pc, market, etf_index, results, verification_results,
                   working_etfs, failed_etfs, journal>>

FormatsReturn ==
    /\ fmt.status = "return"
    /\ fmt' = formats_return(fmt)
    /\ UNCHANGED <<hist, ver, cur, dvd, rec, pc, market, etf_index, results, verification_results,
                   working_etfs, failed_etfs, journal>>

NextFormats == FormatsSuffixes \/ FormatsNeo \/ FormatsReturn

SpecFormats == InitFormats /\ [][NextFormats]_vars

-----------------------------------------------------------------------------
(* The provider: what a call may answer *)

\* the trading days the provider may report, around the reference date:
\* 30 days and 1 day before it, the day itself, 1 day and 62 days after it
QuoteDays ==
    LET p == to_datetime(START_DATE)
    IN  {p - 30, p - 1, p, p + 1, p + 62}

\* the elements of a set of rows as a sequence in date order
RECURSIVE InDateOrder(_)
InDateOrder(rows) ==
    IF rows = {} THEN <<>>
    ELSE LET first == CHOOSE r \in rows : \A q \in rows : r.date <= q.date
         IN  <<first>> \o InDateOrder(rows \ {first})

\* every table of at most MaxRows rows, one row per day, with days in
\* [start, end) and the given prices in the given column
Tables(start, end, column, quotes) ==
    LET days == {d \in QuoteDays : start <= d /\ d < end}
    IN  UNION { { InDateOrder({[date |-> d, col |-> column, value |-> f[d]] : d \in ds})
                  : f \in [ds -> quotes] }
                : ds \in {s \in SUBSET days : Cardinality(s) <= MaxRows} }

ProviderError(ticker) == [err |-> TRUE, msg |-> "provider error for " \o ticker, rows |-> <<>>]

ProviderData(rows) == [err |-> FALSE, msg |-> "", rows |-> rows]

\* yf.download(ticker, start, end) and Ticker(ticker).history(start, end):
\* a failure, or a (possibly empty) table of opening prices
fetch_history(ticker, start, end, quotes) ==
    {ProviderError(ticker)} \cup {ProviderData(t) : t \in Tables(start, end, "Open", quotes)}


-----------------------------------------------------------------------------
(* Historical Price Resolver: get_historical_price_with_fallback *)

\* the symbols the resolvers are exercised on, one by one: a plain symbol,
\* a NEO-exchange symbol, an already suffixed symbol
ProbeSymbols == {"FSCO", "HHIS", "XYZ.L"}

\* the frame on entry: lines 244-251
hist_enter(symbol, preferred_date) ==
    [status         |-> "loop",
     symbol         |-> symbol,
     preferred_date |-> preferred_date,
     symbols_to_try |-> get_international_ticker_formats(symbol),
     next           |-> 1,
     last_error     |-> None,
     result         |-> None,
     calls          |-> <<>>]

\* the window of the first download: [preferred_date, preferred_date + 5 days)
PreferredWindowDays == 5

\* the widened search starts 90 days before the preferred date
SearchBackDays == 90

preferred_window(preferred_date) ==
    [start |-> to_datetime(preferred_date),
     end   |-> to_datetime(preferred_date) + PreferredWindowDays]

widened_window(preferred_date) ==
    [start |-> to_datetime(strftime_ymd(to_datetime(preferred_date) - SearchBackDays)),
     end   |-> to_datetime(strftime_ymd(Today))]

\* what the journal of a call keeps of one provider reply
Reply(ticker, window, r) ==
    [ticker  |-> ticker,
     window  |-> window,
     outcome |-> IF r.err THEN "error" ELSE IF r.rows = <<>> THEN "empty" ELSE "data",
     first   |-> IF r.err \/ r.rows = <<>> THEN None ELSE Some(r.rows[1])]

\* a faulty variant of the test of line 274: a quote of the first window is
\* never marked as a fallback
is_fallback_date_never(actual_date, preferred_date) == FALSE

\* line 274: the first window's quote is a fallback when its day is not the preferred one
is_fallback_date(actual_date, preferred_date) == actual_date # preferred_date

\* lines 263-276 and 291-304: the quote taken from the first row of a table
hist_quote(ticker, data, preferred_date, widened) ==
    LET initial_price == data[1].value
        actual_date   == strftime_ymd(data[1].date)
    IN  [price          |-> Some(initial_price),
         date           |-> Some(actual_date),
         formatted_date |-> Some(format_date_dd_mm_yyyy(actual_date)),
         ticker         |-> Some(ticker),
         is_fallback    |-> IF widened THEN TRUE
                            ELSE is_fallback_date(actual_date, preferred_date),
         error          |-> None]

\* lines 312-318: no ticker format gave data
hist_failure(last_error) ==
    [price          |-> None,
     date           |-> None,
     ticker         |-> None,
     is_fallback    |-> FALSE,
     error          |-> Some("No data available with any ticker format. Last error: "
                             \o (IF IsNone(last_error) THEN "None" ELSE Get(last_error)))]

\* a faulty variant of the returns of lines 269-276 and 297-304: the quote
\* is kept but the loop goes on to the next ticker format
hist_return_continue(f, quote, calls) ==
    [f EXCEPT !.result = Some(quote), !.next = @ + 1, !.calls = @ \o calls]

\* lines 269-276 and 297-304: return the quote; the loop ends
hist_return(f, quote, calls) ==
    [f EXCEPT !.status = "returned", !.result = Some(quote), !.calls = @ \o calls]

\* a faulty variant of the handler of lines 306-309: a provider error ends
\* the search
hist_except_fatal(f, msg, calls) ==
    [f EXCEPT !.status = "returned", !.result = Some(hist_failure(Some(msg))),
              !.last_error = Some(msg), !.calls = @ \o calls]

\* lines 306-309: a provider error is kept as the last error and the next
\* ticker format is tried
hist_except(f, msg, calls) ==
    [f EXCEPT !.last_error = Some(msg), !.next = @ + 1, !.calls = @ \o calls]

\* lines 253-309: one pass of the loop, for the next ticker format; r1 is the
\* provider's reply for the preferred window, r2 its reply for the widened
\* window (asked for only when the first table is empty).  A preferred date
\* that is no date raises at line 258, before the provider is asked.
hist_try_ticker(f, r1, r2) ==
    LET ticker == f.symbols_to_try[f.next]
        c1     == Reply(ticker, "preferred", r1)
        c2     == Reply(ticker, "widened", r2)
    IN  IF ~is_date(f.preferred_date)
        THEN hist_except(f, date_error(f.preferred_date), <<>>)
        ELSE IF r1.err
        THEN hist_except(f, r1.msg, <<c1>>)
        ELSE IF r1.rows # <<>>
        THEN hist_return(f, hist_quote(ticker, r1.rows, f.preferred_date, FALSE), <<c1>>)
        ELSE IF r2.err
        THEN hist_except(f, r2.msg, <<c1, c2>>)
        ELSE IF r2.rows # <<>>
        THEN hist_return(f, hist_quote(ticker, r2.rows, f.preferred_date, TRUE), <<c1, c2>>)
        ELSE [f EXCEPT !.next = @ + 1, !.calls = @ \o <<c1, c2>>]

\* lines 311-318: the loop ran out of ticker formats
hist_exhausted(f) ==
    [f EXCEPT !.status = "returned", !.result = Some(hist_failure(f.last_error))]

\* the opening prices the historical resolver is exercised with
HistQuotes == {0, 10000}

\* the replies the provider may give to the downloads for one ticker: the
\* widened window is asked for only after an empty first table (r2 = r1
\* stands for "not asked")
HistReplies(f) ==
    LET ticker == f.symbols_to_try[f.next]
        w1     == preferred_window(f.preferred_date)
        w2     == widened_window(f.preferred_date)
        first  == fetch_history(ticker, w1.start, w1.end, HistQuotes)
    IN  {<<r1, r1>> : r1 \in {r \in first : r.err \/ r.rows # <<>>}}
          \cup {<<ProviderData(<<>>), r2>> :
                   r2 \in fetch_history(ticker, w2.start, w2.end, HistQuotes)}

\* the whole call, the provider answering from a script: one pair of replies
\* per ticker format
RECURSIVE hist_run(_, _)
hist_run(f, script) ==
    IF f.status = "returned" THEN f
    ELSE IF f.next > Len(f.symbols_to_try) THEN hist_exhausted(f)
    ELSE Let(hist_try_ticker(f, script[f.next][1], script[f.next][2]),
             LAMBDA g : hist_run(g, script))

get_historical_price_with_fallback(symbol, preferred_date, script) ==
    Let(hist_enter(symbol, preferred_date), LAMBDA f : Get(hist_run(f, script).result))

-----------------------------------------------------------------------------
(* The specification of the historical resolver, pass by pass *)

InitHist ==
    /\ \E symbol \in ProbeSymbols : hist = hist_enter(symbol, START_DATE)
    /\ ver = Idle
    /\ pc = "idle"
    /\ market = None
    /\ etf_index = 0
    /\ results = None
    /\ verification_results = None
    /\ working_etfs = None
    /\ failed_etfs = None
    /\ journal = <<>>
    /\ fmt = Idle
    /\ cur = Idle
    /\ dvd = Idle
    /\ rec = Idle

HistTryTicker ==
    /\ hist.status = "loop"
    /\ hist.next <= Len(hist.symbols_to_try)
    /\ \E r \in HistReplies(hist) : hist' = hist_try_ticker(hist, r[1], r[2])
    /\ UNCHANGED <<ver, pc, market, etf_index, results, verification_results,
                   working_etfs, failed_etfs, journal>>
    /\ UNCHANGED <<cur, dvd, rec, fmt>>

HistExhausted ==
    /\ hist.status = "loop"
    /\ hist.next > Len(hist.symbols_to_try)
    /\ hist' = hist_exhausted(hist)
    /\ UNCHANGED <<ver, pc, market, etf_index, results, verification_results,
                   working_etfs, failed_etfs, journal>>
    /\ UNCHANGED <<cur, dvd, rec, fmt>>

NextHist == HistTryTicker \/ HistExhausted

SpecHist == InitHist /\ [][NextHist]_vars


-----------------------------------------------------------------------------
(* Cross-Validation Verifier: verify_price_with_alternative_source *)

\* lines 18-27: the ticker formats the verifier tries
verify_symbols_to_try(symbol) ==
    LET canadian ==
            IF ~endswith(symbol, ".TO") /\ ~endswith(symbol, ".TSE")
            THEN <<symbol, symbol \o ".TO", symbol \o ".TSE">>
            ELSE <<symbol>>
    IN  IF symbol \in NeoSymbols THEN Append(canadian, symbol \o ".NE") ELSE canadian

\* the frame on entry: lines 14-30
verify_enter(symbol, target_date) ==
    [status         |-> "loop",
     symbol         |-> symbol,
     target_date    |-> target_date,
     symbols_to_try |-> verify_symbols_to_try(symbol),
     next           |-> 1,
     prices         |-> <<>>,
     methods        |-> <<>>,
     result         |-> None,
     calls          |-> <<>>]

\* Method 1 asks for [target_date, target_date + 5 days)
Method1WindowDays == 5

\* Method 2 asks for [target_date - 2 days, target_date + 4 days)
Method2BackDays == 2

Method2AheadDays == 4

method1_window(target_date) ==
    [start |-> to_datetime(target_date),
     end   |-> to_datetime(target_date) + Method1WindowDays]

method2_window(target_date) ==
    [start |-> to_datetime(strftime_ymd(to_datetime(target_date) - Method2BackDays)),
     end   |-> to_datetime(strftime_ymd(to_datetime(target_date) + Method2AheadDays))]

AbsDiff(a, b) == IF a >= b THEN a - b ELSE b - a

\* what the verifier's journal keeps of one provider reply: the rows too
Download(ticker, method, r) ==
    [ticker  |-> ticker,
     window  |-> method,
     outcome |-> IF r.err THEN "error" ELSE IF r.rows = <<>> THEN "empty" ELSE "data",
     first   |-> IF r.err \/ r.rows = <<>> THEN None ELSE Some(r.rows[1]),
     rows    |-> r.rows]

\* a faulty variant of the test of line 63: a row as close as the best one
\* replaces it
RECURSIVE closest_row_or_equal(_, _, _, _)
closest_row_or_equal(rows, target_ts, k, best) ==
    IF k > Len(rows) THEN best
    ELSE IF IsNone(best) \/ AbsDiff(rows[k].date, target_ts) <= AbsDiff(Get(best).date, target_ts)
         THEN closest_row_or_equal(rows, target_ts, k + 1, Some(rows[k]))
         ELSE closest_row_or_equal(rows, target_ts, k + 1, best)

\* lines 57-65: the row closest to the target, the earlier one of two equally close
RECURSIVE closest_row(_, _, _, _)
closest_row(rows, target_ts, k, best) ==
    IF k > Len(rows) THEN best
    ELSE IF IsNone(best) \/ AbsDiff(rows[k].date, target_ts) < AbsDiff(Get(best).date, target_ts)
         THEN closest_row(rows, target_ts, k + 1, Some(rows[k]))
         ELSE closest_row(rows, target_ts, k + 1, best)

\* a faulty variant of the break of lines 75-77: the scan never stops early
found_data_never(prices) == FALSE

\* lines 75-77: stop at the ticker format that gave a price
found_data(prices) == prices # <<>>

\* lines 32-77: one pass of the loop; r1 is the reply to Method 1's query,
\* r2 the reply to Method 2's.  A target date that is no date raises at
\* lines 38 and 50, before the provider is asked: neither method gives a
\* price.
verify_try_ticker(f, r1, r2) ==
    IF ~is_date(f.target_date) THEN [f EXCEPT !.next = @ + 1] ELSE
    LET ticker == f.symbols_to_try[f.next]
        got1   == ~r1.err /\ r1.rows # <<>>
        got2   == ~r2.err /\ r2.rows # <<>>
        price1 == r1.rows[1].value
        price3 == Get(closest_row(r2.rows, to_datetime(f.target_date), 1, None)).value
        prices == f.prices \o (IF got1 THEN <<price1>> ELSE <<>>)
                           \o (IF got2 THEN <<price3>> ELSE <<>>)
        methods == f.methods \o (IF got1 THEN <<"Method 1 (" \o ticker \o ")">> ELSE <<>>)
                             \o (IF got2 THEN <<"Method 2 (" \o ticker \o ")">> ELSE <<>>)
    IN  [f EXCEPT !.prices = prices,
                  !.methods = methods,
                  !.status = IF found_data(prices) THEN "analyze" ELSE "loop",
                  !.next = IF found_data(prices) THEN @ ELSE @ + 1,
                  !.calls = @ \o <<Download(ticker, "method1", r1),
                                  Download(ticker, "method2", r2)>>]

RECURSIVE Sum(_)
Sum(seq) == IF seq = <<>> THEN 0 ELSE seq[1] + Sum(Tail(seq))

Max(set) == CHOOSE m \in set : \A x \in set : x <= m

\* the 1% tolerance of line 97, as a fraction
ToleranceNum == 1

ToleranceDen == 100

\* lines 94-95 in exact arithmetic: the average of n prices of sum S is S/n
\* and the largest |p - S/n| / (S/n) is the largest |n*p - S| / S  (S > 0)
max_diff_exact(prices) ==
    LET n == Len(prices)
        S == Sum(prices)
    IN  Frac(Max({AbsDiff(n * prices[k], S) : k \in 1..n}), S)

\* line 94: avg_price = sum(prices) / len(prices)
float_average(prices) ==
    float_div(float_sum(prices, 1, float_of_int(0)), float_of_int(Len(prices)))

\* line 95: abs(p - avg_price) / avg_price
float_diff(p, avg_price) ==
    float_div(float_abs(float_sub(float_of_cents(p), avg_price)), avg_price)

\* line 95: the max of the generator, the first of the largest
RECURSIVE float_max_diff_from(_, _, _, _)
float_max_diff_from(prices, avg_price, k, best) ==
    IF k > Len(prices) THEN best
    ELSE Let(float_diff(prices[k], avg_price), LAMBDA d :
             float_max_diff_from(prices, avg_price, k + 1,
                                 IF float_le(d, best) THEN best ELSE d))

\* lines 94-95: max_diff as the code computes it
float_max_diff(prices) ==
    Let(float_average(prices), LAMBDA avg_price :
        float_max_diff_from(prices, avg_price, 2, float_diff(prices[1], avg_price)))

\* the literal 0.01 of line 97
float_tolerance == float_div(float_of_int(ToleranceNum), float_of_int(ToleranceDen))

\* line 97: max_diff <= 0.01, for prices of sum above zero
within_tolerance(prices) ==
    LET d == max_diff_exact(prices)
    IN  IF d.num * ToleranceDen = ToleranceNum * d.den
        THEN float_le(float_max_diff(prices), float_tolerance)
        ELSE d.num * ToleranceDen < ToleranceNum * d.den

\* a result dictionary; a key the code leaves out is None
Outcome(average, verified, methods, prices, discrepancy, error) ==
    [average     |-> average,
     verified    |-> verified,
     methods     |-> methods,
     prices      |-> prices,
     discrepancy |-> discrepancy,
     error       |-> error]

\* lines 79-118: the prices collected, classified.  The discrepancy is the
\* exact fraction the code's max_diff stands for.
analyze_prices(prices, methods) ==
    LET n == Len(prices)
        S == Sum(prices)
    IN  IF n = 0
        THEN Outcome(None, FALSE, None, None, None, Some("All verification methods failed"))
        ELSE IF n = 1
        THEN Outcome(Some(FracOfInt(prices[1])), FALSE,
                     Some(methods), Some(prices), None, None)
        ELSE IF S = 0
        THEN \* line 95 divides by the average: ZeroDivisionError, caught at line 116
             Outcome(None, FALSE, None, None, None, Some("float division by zero"))
        ELSE IF within_tolerance(prices)
        THEN Outcome(Some(Frac(S, n)), TRUE,
                     Some(methods), Some(prices), None, None)
        ELSE Outcome(Some(Frac(S, n)), FALSE,
                     Some(methods), Some(prices), Some(max_diff_exact(prices)), None)

verify_analyze(f) ==
    [f EXCEPT !.status = "returned", !.result = Some(analyze_prices(f.prices, f.methods))]

\* a faulty variant of lines 120-127: the average alone decides the status
get_verification_status_by_average(verification_result) ==
    IF ~IsNone(verification_result.average) THEN STATUS_VERIFIED ELSE STATUS_NO_DATA

\* lines 120-127
get_verification_status(verification_result) ==
    IF verification_result.verified THEN STATUS_VERIFIED
    ELSE IF ~IsNone(verification_result.average) THEN STATUS_ALT_SOURCE
    ELSE STATUS_NO_DATA

\* the opening prices the verifier is exercised with
VerifyQuotes == {0, 9900, 10000, 10300}

\* a symbol quoted on the target date only, whatever its ticker format, at prices
\* that include pairs exactly 1% away from their mean (0.99 and 1.01, 99.00
\* and 101.00)
ToleranceSymbols == {"XYZ.L"}

ToleranceQuotes == {0, 99, 101, 9900, 10000, 10050, 10100, 10300}

ToleranceReplies(f) ==
    LET ticker == f.symbols_to_try[f.next]
        day    == to_datetime(f.target_date)
        answer == {ProviderError(ticker), ProviderData(<<>>)}
                    \cup {ProviderData(<<[date |-> day, col |-> "Open", value |-> q]>>)
                            : q \in ToleranceQuotes}
    IN  answer \X answer

VerifyReplies(f) ==
    LET ticker == f.symbols_to_try[f.next]
        w1     == method1_window(f.target_date)
        w2     == method2_window(f.target_date)
    IN  fetch_history(ticker, w1.start, w1.end, VerifyQuotes)
          \X fetch_history(ticker, w2.start, w2.end, VerifyQuotes)

\* the whole call, the provider answering from a script
RECURSIVE verify_run(_, _)
verify_run(f, script) ==
    IF f.status = "returned" THEN f
    ELSE IF f.status = "analyze" \/ f.next > Len(f.symbols_to_try) THEN verify_analyze(f)
    ELSE Let(verify_try_ticker(f, script[f.next][1], script[f.next][2]),
             LAMBDA g : verify_run(g, script))

verify_price_with_alternative_source(symbol, target_date, script) ==
    Let(verify_enter(symbol, target_date), LAMBDA f : Get(verify_run(f, script).result))

-----------------------------------------------------------------------------
(* The specification of the verifier, pass by pass *)

InitVerify ==
    /\ \E symbol \in ProbeSymbols : ver = verify_enter(symbol, START_DATE)
    /\ hist = Idle
    /\ pc = "idle"
    /\ market = None
    /\ etf_index = 0
    /\ results = None
    /\ verification_results = None
    /\ working_etfs = None
    /\ failed_etfs = None
    /\ journal = <<>>
    /\ fmt = Idle
    /\ cur = Idle
    /\ dvd = Idle
    /\ rec = Idle

VerifyTryTicker ==
    /\ ver.status = "loop"
    /\ ver.next <= Len(ver.symbols_to_try)
    /\ \E r \in VerifyReplies(ver) : ver' = verify_try_ticker(ver, r[1], r[2])
    /\ UNCHANGED <<hist, pc, market, etf_index, results, verification_results,
                   working_etfs, failed_etfs, journal>>
    /\ UNCHANGED <<cur, dvd, rec, fmt>>

VerifyAnalyze ==
    /\ \/ ver.status = "analyze"
       \/ ver.status = "loop" /\ ver.next > Len(ver.symbols_to_try)
    /\ ver' = verify_analyze(ver)
    /\ UNCHANGED <<hist, pc, market, etf_index, results, verification_results,
                   working_etfs, failed_etfs, journal>>
    /\ UNCHANGED <<cur, dvd, rec, fmt>>

NextVerify == VerifyTryTicker \/ VerifyAnalyze

SpecVerify == InitVerify /\ [][NextVerify]_vars

-----------------------------------------------------------------------------
(* The specification of the verifier at the edge of its tolerance: every
   ticker format is quoted on the target date only *)

InitTolerance ==
    /\ \E symbol \in ToleranceSymbols : ver = verify_enter(symbol, START_DATE)
    /\ hist = Idle
    /\ pc = "idle"
    /\ market = None
    /\ etf_index = 0
    /\ results = None
    /\ verification_results = None
    /\ working_etfs = None
    /\ failed_etfs = None
    /\ journal = <<>>
    /\ fmt = Idle
    /\ cur = Idle
    /\ dvd = Idle
    /\ rec = Idle

VerifyTryQuoted ==
    /\ ver.status = "loop"
    /\ ver.next <= Len(ver.symbols_to_try)
    /\ \E r \in ToleranceReplies(ver) : ver' = verify_try_ticker(ver, r[1], r[2])
    /\ UNCHANGED <<hist, pc, market, etf_index, results, verification_results,
                   working_etfs, failed_etfs, journal>>
    /\ UNCHANGED <<cur, dvd, rec, fmt>>

NextTolerance == VerifyTryQuoted \/ VerifyAnalyze

SpecTolerance == InitTolerance /\ [][NextTolerance]_vars


-----------------------------------------------------------------------------
(* Current Price Resolver: get_current_market_price *)

\* line 236
CurrentFailure == [success |-> FALSE, price |-> None, date |-> None, ticker_used |-> None,
                   error |-> Some("No current price data available")]

\* the frame on entry: lines 203-209
current_enter(symbol) ==
    [status         |-> "loop",
     symbol         |-> symbol,
     symbols_to_try |-> get_international_ticker_formats(symbol),
     next           |-> 1,
     result         |-> None,
     calls          |-> <<>>]

\* what the journal of a call keeps of the reply to history(period="5d")
HistoryCall(ticker, h) ==
    [ticker  |-> ticker,
     method  |-> "history",
     outcome |-> IF h.err THEN "error" ELSE IF h.rows = <<>> THEN "empty" ELSE "data",
     last    |-> IF h.err \/ h.rows = <<>> THEN None ELSE Some(h.rows[Len(h.rows)])]

\* what the journal of a call keeps of the reply to .info
InfoCall(ticker, info) ==
    [ticker  |-> ticker,
     method  |-> "info",
     outcome |-> IF info.err THEN "error"
                 ELSE IF IsNone(info.regularMarketPrice) THEN "missing"
                 ELSE "price",
     last    |-> IF info.err THEN None ELSE info.regularMarketPrice]

\* a faulty variant of the test of line 226: any price that is present is taken
info_has_price_any(info) == ~IsNone(info.regularMarketPrice)

\* line 226: 'regularMarketPrice' in info and info['regularMarketPrice']
info_has_price(info) ==
    ~IsNone(info.regularMarketPrice) /\ Get(info.regularMarketPrice) # 0

\* lines 211-233: one pass of the loop; h is the reply to history(period="5d")
\* (closing prices), info the reply to .info (asked for only when the
\* history is empty): an error, or the regularMarketPrice field (None: the
\* key is missing or its value is None)
current_try_ticker(f, h, info) ==
    LET ticker == f.symbols_to_try[f.next]
        c1     == HistoryCall(ticker, h)
        c2     == InfoCall(ticker, info)
    IN  IF h.err
        THEN [f EXCEPT !.next = @ + 1, !.calls = @ \o <<c1>>]
        ELSE IF h.rows # <<>>
        THEN [f EXCEPT !.status = "returned",
                       !.result = Some([success     |-> TRUE,
                                        price       |-> Some(h.rows[Len(h.rows)].value),
                                        date        |-> Some(strftime_ymd(h.rows[Len(h.rows)].date)),
                                        ticker_used |-> Some(ticker),
                                        error       |-> None]),
                       !.calls = @ \o <<c1>>]
        ELSE IF info.err
        THEN [f EXCEPT !.next = @ + 1, !.calls = @ \o <<c1, c2>>]
        ELSE IF info_has_price(info)
        THEN [f EXCEPT !.status = "returned",
                       !.result = Some([success     |-> TRUE,
                                        price       |-> info.regularMarketPrice,
                                        date        |-> None,
                                        ticker_used |-> Some(ticker),
                                        error       |-> None]),
                       !.calls = @ \o <<c1, c2>>]
        ELSE [f EXCEPT !.next = @ + 1, !.calls = @ \o <<c1, c2>>]

\* lines 235-236: the loop ran out of ticker formats
current_exhausted(f) ==
    [f EXCEPT !.status = "returned", !.result = Some(CurrentFailure)]

\* the whole call, the provider answering from a script: script[k] is the
\* pair [history, info] of replies for the k-th ticker format
RECURSIVE current_run(_, _)
current_run(f, script) ==
    IF f.status = "returned" THEN f
    ELSE IF f.next > Len(f.symbols_to_try) THEN current_exhausted(f)
    ELSE Let(current_try_ticker(f, script[f.next].history, script[f.next].info),
             LAMBDA g : current_run(g, script))

get_current_market_price(symbol, script) ==
    Let(current_enter(symbol), LAMBDA f : Get(current_run(f, script).result))

\* the closing prices (cents) the current-price resolver is exercised with
CloseQuotes == {0, 11000}

\* the tables history(period="5d") may return: at most MaxRows closing
\* prices of the last days before the run
RecentTables ==
    LET days == {Today - 2, Today - 1}
    IN  UNION { { InDateOrder({[date |-> d, col |-> "Close", value |-> q[d]] : d \in ds})
                  : q \in [ds -> CloseQuotes] }
                : ds \in {x \in SUBSET days : Cardinality(x) <= MaxRows} }

\* the replies .info may give
InfoReplies ==
    {[err |-> TRUE, regularMarketPrice |-> None]}
      \cup {[err |-> FALSE, regularMarketPrice |-> v] : v \in {None, Some(0), Some(11100)}}

\* the replies to the calls of one pass: .info is asked for only after an
\* empty history (with another history the info reply is not looked at)
CurrentReplies(f) ==
    LET ticker == f.symbols_to_try[f.next]
        unasked == [err |-> TRUE, regularMarketPrice |-> None]
    IN  {[history |-> ProviderError(ticker), info |-> unasked]}
          \cup {[history |-> ProviderData(t), info |-> unasked] : t \in RecentTables \ {<<>>}}
          \cup {[history |-> ProviderData(<<>>), info |-> i] : i \in InfoReplies}

-----------------------------------------------------------------------------
(* The specification of the current-price resolver, pass by pass *)

InitCurrent ==
    /\ \E symbol \in ProbeSymbols : cur = current_enter(symbol)
    /\ hist = Idle
    /\ ver = Idle
    /\ dvd = Idle
    /\ rec = Idle
    /\ pc = "idle"
    /\ market = None
    /\ etf_index = 0
    /\ results = None
    /\ verification_results = None
    /\ working_etfs = None
    /\ failed_etfs = None
    /\ journal = <<>>
    /\ fmt = Idle

CurrentTryTicker ==
    /\ cur.status = "loop"
    /\ cur.next <= Len(cur.symbols_to_try)
    /\ \E r \in CurrentReplies(cur) : cur' = current_try_ticker(cur, r.history, r.info)
    /\ UNCHANGED <<fmt, hist, ver, dvd, rec, pc, market, etf_index, results, verification_results,
                   working_etfs, failed_etfs, journal>>

CurrentExhausted ==
    /\ cur.status = "loop"
    /\ cur.next > Len(cur.symbols_to_try)
    /\ cur' = current_exhausted(cur)
    /\ UNCHANGED <<fmt, hist, ver, dvd, rec, pc, market, etf_index, results, verification_results,
                   working_etfs, failed_etfs, journal>>

NextCurrent == CurrentTryTicker \/ CurrentExhausted

SpecCurrent == InitCurrent /\ [][NextCurrent]_vars

-----------------------------------------------------------------------------
(* Dividend Aggregator: get_dividends_for_period *)

\* A dividend series is a table of [date, value] rows (value: cents per
\* share) with a timezone: tz = None for naive ex-dates, Some(h) for ex-dates
\* at local midnight h hours east of UTC.  Instants are counted in hours.
HoursPerDay == 24

\* the instant of an ex-date of the series
ex_instant(row, tz) ==
    IF IsNone(tz) THEN row.date * HoursPerDay ELSE row.date * HoursPerDay - Get(tz)

\* lines 70-79: a period bound; against a timezone-aware index it is
\* localized to UTC (and converted: the instant stays)
period_bound(date_str, tz) == to_datetime(date_str) * HoursPerDay

\* the frame on entry: lines 40-46
dividends_enter(symbol, start_date, end_date, shares_owned) ==
    [status           |-> "loop",
     symbol           |-> symbol,
     start_date       |-> start_date,
     end_date         |-> end_date,
     shares_owned     |-> shares_owned,
     symbols_to_try   |-> get_international_ticker_formats(symbol),
     next             |-> 1,
     dividends        |-> None,
     period_dividends |-> None,
     result           |-> None,
     calls            |-> <<>>]

\* what the journal of a call keeps of the reply to .dividends
DividendsCall(ticker, r) ==
    [ticker  |-> ticker,
     outcome |-> IF r.err THEN "error" ELSE IF r.rows = <<>> THEN "empty" ELSE "data",
     series  |-> IF r.err THEN None ELSE Some(r)]

\* a faulty variant of the test of line 53: the loop never breaks
series_found_never(r) == FALSE

\* line 53: if not dividends.empty: break
series_found(r) == r.rows # <<>>

\* lines 48-59: one pass of the loop; r is the reply to .dividends
dividends_try_ticker(f, r) ==
    LET ticker == f.symbols_to_try[f.next]
        call   == DividendsCall(ticker, r)
    IN  IF r.err
        THEN [f EXCEPT !.next = @ + 1, !.calls = @ \o <<call>>]
        ELSE IF series_found(r)
        THEN [f EXCEPT !.status = "filter", !.dividends = Some(r), !.calls = @ \o <<call>>]
        ELSE [f EXCEPT !.next = @ + 1, !.calls = @ \o <<call>>]

\* a faulty variant of lines 63-67: no history is reported as a failure
no_history_result_failed ==
    [total_dividends |-> FracOfInt(0), dividend_count |-> 0, success |-> FALSE]

\* lines 63-67: no ticker format gave a dividend history
no_history_result ==
    [total_dividends |-> FracOfInt(0), dividend_count |-> 0, success |-> TRUE]

\* lines 86-90: the history has no ex-date in the period
no_period_result ==
    [total_dividends |-> FracOfInt(0), dividend_count |-> 0, success |-> TRUE]

\* lines 60-67: the else of the for loop
dividends_none(f) ==
    [f EXCEPT !.status = "returned", !.result = Some(no_history_result)]

\* line 82: the rows of the history with start_dt <= ex-date <= end_dt
filter_period(dividends, start_date, end_date) ==
    LET start_dt == period_bound(start_date, dividends.tz)
        end_dt   == period_bound(end_date, dividends.tz)
    IN  SelectSeq(dividends.rows,
                  LAMBDA row : /\ ex_instant(row, dividends.tz) >= start_dt
                               /\ ex_instant(row, dividends.tz) <= end_dt)

\* lines 106-108: an exception raised anywhere in the call
dividends_except(msg) ==
    [success |-> FALSE, error |-> msg, total_dividends |-> FracOfInt(0)]

\* lines 69-108: the history found, filtered and summed; a bound of the
\* period that is no date raises at line 70 or 71 and the handler of lines
\* 106-108 answers.  dividend_per_share is kept as the exact sum and its
\* addends in order: the code's float is the float sum of the addends.
dividends_filter(f) ==
    LET period_dividends == filter_period(Get(f.dividends), f.start_date, f.end_date)
        total_dividend_per_share ==
            Sum([k \in 1..Len(period_dividends) |-> period_dividends[k].value])
    IN  IF ~is_date(f.start_date)
        THEN [f EXCEPT !.status = "returned",
                       !.result = Some(dividends_except(date_error(f.start_date)))]
        ELSE IF ~is_date(f.end_date)
        THEN [f EXCEPT !.status = "returned",
                       !.result = Some(dividends_except(date_error(f.end_date)))]
        ELSE
        [f EXCEPT !.status = "returned",
                  !.period_dividends = Some(period_dividends),
                  !.result =
                      Some(IF period_dividends = <<>>
                           THEN no_period_result
                           ELSE [total_dividends |-> FracMul(FracOfInt(total_dividend_per_share),
                                                             f.shares_owned),
                                 dividend_per_share |->
                                     [value   |-> FracOfInt(total_dividend_per_share),
                                      addends |-> [k \in 1..Len(period_dividends) |->
                                                      period_dividends[k].value]],
                                 dividend_count  |-> Len(period_dividends),
                                 success         |-> TRUE])]

\* the whole call, the provider answering from a script: script[k] is the
\* reply to .dividends for the k-th ticker format
RECURSIVE dividends_run(_, _)
dividends_run(f, script) ==
    IF f.status = "returned" THEN f
    ELSE IF f.status = "filter" THEN dividends_filter(f)
    ELSE IF f.next > Len(f.symbols_to_try) THEN dividends_none(f)
    ELSE Let(dividends_try_ticker(f, script[f.next]),
             LAMBDA g : dividends_run(g, script))

\* lines 40-108; shares_owned is a fraction
get_dividends_for_period(symbol, start_date, end_date, shares_owned, script) ==
    Let(dividends_enter(symbol, start_date, end_date, shares_owned),
        LAMBDA f : Get(dividends_run(f, script).result))

\* the UTC offsets (hours) of the histories the aggregator is exercised
\* with: naive dates, UTC, a zone west and a zone east of UTC
SeriesZones == {None, Some(0), Some(0 - 5), Some(10)}

\* the ex-dates of those histories: the day before the period, its first
\* day, a day inside, its last day, the day after
ExDays(start_date, end_date) ==
    {to_datetime(start_date) - 1, to_datetime(start_date), to_datetime(start_date) + 30,
     to_datetime(end_date), to_datetime(end_date) + 1}

\* the histories .dividends may return: at most MaxRows payments of 0.75
SeriesTables(start_date, end_date) ==
    { InDateOrder({[date |-> d, col |-> "Dividends", value |-> 75] : d \in ds})
      : ds \in {x \in SUBSET ExDays(start_date, end_date) : Cardinality(x) <= MaxRows} }

\* the replies to .dividends: an error, an empty history, or a history
\* with payments in one of the zones
DividendsReplies(f) ==
    {[err |-> TRUE, tz |-> None, rows |-> <<>>], [err |-> FALSE, tz |-> None, rows |-> <<>>]}
      \cup {[err |-> FALSE, tz |-> z, rows |-> t]
            : z \in SeriesZones, t \in SeriesTables(f.start_date, f.end_date) \ {<<>>}}

\* the holdings the aggregator is exercised with: 100 shares, 10000/101 shares
DividendShares == {FracOfInt(100), Frac(10000, 101)}

-----------------------------------------------------------------------------
(* The specification of the dividend aggregator, pass by pass *)

InitDividends ==
    /\ \E symbol \in ProbeSymbols : \E shares_owned \in DividendShares :
           dvd = dividends_enter(symbol, START_DATE, strftime_ymd(Today), shares_owned)
    /\ hist = Idle
    /\ ver = Idle
    /\ cur = Idle
    /\ rec = Idle
    /\ pc = "idle"
    /\ market = None
    /\ etf_index = 0
    /\ results = None
    /\ verification_results = None
    /\ working_etfs = None
    /\ failed_etfs = None
    /\ journal = <<>>
    /\ fmt = Idle

DividendsTryTicker ==
    /\ dvd.status = "loop"
    /\ dvd.next <= Len(dvd.symbols_to_try)
    /\ \E r \in DividendsReplies(dvd) : dvd' = dividends_try_ticker(dvd, r)
    /\ UNCHANGED <<fmt, hist, ver, cur, rec, pc, market, etf_index, results, verification_results,
                   working_etfs, failed_etfs, journal>>

DividendsNone ==
    /\ dvd.status = "loop"
    /\ dvd.next > Len(dvd.symbols_to_try)
    /\ dvd' = dividends_none(dvd)
    /\ UNCHANGED <<fmt, hist, ver, cur, rec, pc, market, etf_index, results, verification_results,
                   working_etfs, failed_etfs, journal>>

DividendsFilter ==
    /\ dvd.status = "filter"
    /\ dvd' = dividends_filter(dvd)
    /\ UNCHANGED <<fmt, hist, ver, cur, rec, pc, market, etf_index, results, verification_results,
                   working_etfs, failed_etfs, journal>>

NextDividends == DividendsTryTicker \/ DividendsNone \/ DividendsFilter

SpecDividends == InitDividends /\ [][NextDividends]_vars

-----------------------------------------------------------------------------
(* Portfolio Record Builder: process_etf_data *)

CentsPerDollar == 100

\* a row of the results list; a key the code leaves out is None.  Money is
\* in cents, shares in hundredths, percentages in tenths of a percent.
Record(symbol, initial, current, nav, shares, value, dividends, gain, gain_pct, total, total_pct, verified, actual_start, is_fallback, original) ==
    [Symbol                      |-> symbol,
     Initial_Share_Price_USD     |-> initial,
     Current_Share_Price_USD     |-> current,
     NAV_USD                     |-> nav,
     Shares_Purchased            |-> shares,
     Current_Portfolio_Value_USD |-> value,
     Dividends_Collected_USD     |-> dividends,
     Gain_Loss_USD               |-> gain,
     Gain_Loss_Pct               |-> gain_pct,
     Total_Return_USD            |-> total,
     Total_Return_Pct            |-> total_pct,
     Verified                    |-> verified,
     Actual_Start_Date           |-> actual_start,
     Is_Fallback                 |-> is_fallback,
     Original_Symbol             |-> original]

\* what a call gives back: (etf_data, error), or an exception
Returned(etf_data, error) == [raised |-> FALSE, etf_data |-> etf_data, error |-> error]

Raised(what) == [raised |-> TRUE, etf_data |-> None, error |-> Some(what)]

\* a faulty variant of lines 359-370: the gain is computed although the
\* current price is missing
gain_loss_always(ok, current_value, investment) == FracSub(current_value, investment)

\* lines 362 and 369: gain_loss, 0.0 when the current price is missing
gain_loss_of(ok, current_value, investment) ==
    IF ok THEN FracSub(current_value, investment) ELSE FracOfInt(0)

\* a faulty variant of lines 363 and 389: the ratio, not multiplied by 100
percent_of_ratio(amount, investment_amount) ==
    FracDiv(amount, FracOfInt(investment_amount * CentsPerDollar))

\* lines 363 and 389: (amount / investment_amount) * 100, the amount in
\* cents and the investment in dollars
percent_of(amount, investment_amount) == FracDiv(amount, FracOfInt(investment_amount))

\* a faulty variant of line 388: the dividends are left out
total_return_without_dividends(gain_loss, dividends_collected) == gain_loss

\* line 388: total_return = gain_loss + dividends_collected
total_return_of(gain_loss, dividends_collected) == FracAdd(gain_loss, dividends_collected)

\* a faulty variant of line 353: the investment in dollars divided by the
\* price in cents
shares_of_price_in_cents(investment_amount, initial_price) ==
    FracDiv(FracOfInt(investment_amount), FracOfInt(initial_price))

\* line 353: shares_purchased = investment_amount / initial_price
shares_of(investment_amount, initial_price) ==
    FracDiv(FracOfInt(investment_amount * CentsPerDollar), FracOfInt(initial_price))

\* a faulty variant of lines 347 and 382: the dividend window starts at
\* the preferred date
dividend_window_start_preferred(price_result, start_date) == start_date

\* lines 347 and 382: the dividend window starts at actual_start_date
dividend_window_start(price_result, start_date) == Get(price_result.date)

\* line 353 as the code computes it
float_shares(investment_amount, initial_price) ==
    float_div(float_of_int(investment_amount), float_of_cents(initial_price))

\* lines 361 and 368: current_value
float_current_value(ok, investment_amount, initial_price, current_price) ==
    IF ok THEN float_mul(float_shares(investment_amount, initial_price),
                         float_of_cents(current_price))
    ELSE float_zero

\* lines 362 and 369: gain_loss
float_gain_loss(ok, investment_amount, initial_price, current_price) ==
    IF ok THEN float_sub(float_current_value(ok, investment_amount, initial_price,
                                             current_price),
                         float_of_int(investment_amount))
    ELSE float_zero

\* lines 363 and 389: (amount / investment_amount) * 100
float_percent(amount, investment_amount) ==
    float_mul(float_div(amount, float_of_int(investment_amount)), float_of_int(100))

\* line 94 of the aggregator: float(total_dividend_per_share) * shares_owned,
\* 0.0 when no dividend was paid in the period
float_dividends(dividend_data, investment_amount, initial_price) ==
    IF "dividend_per_share" \in DOMAIN dividend_data
    THEN float_mul(float_sum(dividend_data.dividend_per_share.addends, 1, float_of_int(0)),
                   float_shares(investment_amount, initial_price))
    ELSE float_zero

\* line 388: total_return
float_total_return(ok, dividend_data, investment_amount, initial_price, current_price) ==
    float_add(float_gain_loss(ok, investment_amount, initial_price, current_price),
              float_dividends(dividend_data, investment_amount, initial_price))

\* lines 353-413: the record, from the resolved price and the answers of
\* the current-price, additional-info (nav) and dividend lookups.  Each
\* rounded field is round() of the float the code holds.
build_record(symbol, price_result, current_data, nav, dividend_data, investment_amount) ==
    LET initial_price == Get(price_result.price)
        investment    == FracOfInt(investment_amount * CentsPerDollar)
        shares_purchased == shares_of(investment_amount, initial_price)
        ok            == current_data.success
        current_price == IF ok THEN Get(current_data.price) ELSE 0
        current_value == IF ok THEN FracMul(shares_purchased, FracOfInt(current_price))
                         ELSE FracOfInt(0)
        gain_loss     == gain_loss_of(ok, current_value, investment)
        gain_loss_pct == IF ok THEN percent_of(gain_loss, investment_amount)
                         ELSE FracOfInt(0)
        dividends_collected == dividend_data.total_dividends
        total_return  == total_return_of(gain_loss, dividends_collected)
        total_return_pct == IF ok THEN percent_of(total_return, investment_amount)
                            ELSE FracOfInt(0)
        symbol_display == IF price_result.is_fallback THEN symbol \o "**" ELSE symbol
    IN  Record(symbol_display,
               initial_price,
               current_price,
               nav,
               round_float(FracMul(shares_purchased, FracOfInt(100)),
                           float_shares(investment_amount, initial_price), 100),
               round_float(current_value,
                           float_current_value(ok, investment_amount, initial_price,
                                               current_price), 100),
               round_float(dividends_collected,
                           float_dividends(dividend_data, investment_amount, initial_price),
                           100),
               round_float(gain_loss,
                           float_gain_loss(ok, investment_amount, initial_price,
                                           current_price), 100),
               round_float(FracMul(gain_loss_pct, FracOfInt(10)),
                           float_percent(float_gain_loss(ok, investment_amount,
                                                         initial_price, current_price),
                                         investment_amount), 10),
               round_float(total_return,
                           float_total_return(ok, dividend_data, investment_amount,
                                              initial_price, current_price), 100),
               round_float(FracMul(total_return_pct, FracOfInt(10)),
                           IF ok
                           THEN float_percent(float_total_return(ok, dividend_data,
                                                  investment_amount, initial_price,
                                                  current_price),
                                              investment_amount)
                           ELSE float_zero, 10),
               STATUS_VERIFIED,
               price_result.date,
               Some(price_result.is_fallback),
               Some(symbol))

\* lines 346-413: the historical price is resolved
process_resolved(symbol, start_date, price_result, end_date, investment_amount, script) ==
    IF Get(price_result.price) = 0
    THEN Raised("float division by zero")                            \* line 353
    ELSE Let(get_current_market_price(symbol, script.current), LAMBDA current_data :
         IF current_data.success /\ investment_amount = 0
         THEN Raised("float division by zero")                       \* line 363
         ELSE Let(get_dividends_for_period(symbol,
                      dividend_window_start(price_result, start_date), end_date,
                      shares_of(investment_amount, Get(price_result.price)),
                      script.dividends),
                  LAMBDA dividend_data :
                  Returned(Some(build_record(symbol, price_result, current_data, script.nav,
                                             dividend_data, investment_amount)),
                           None)))

\* lines 343-413: the historical resolver has answered
process_price_result(symbol, start_date, price_result, end_date, investment_amount, script) ==
    IF ~IsNone(price_result.error)
    THEN Returned(None, price_result.error)
    ELSE process_resolved(symbol, start_date, price_result, end_date, investment_amount, script)

\* lines 337-413
process_etf_data(symbol, start_date, end_date, investment_amount, script) ==
    Let(get_historical_price_with_fallback(symbol, start_date, script.hist),
        LAMBDA price_result :
        process_price_result(symbol, start_date, price_result, end_date, investment_amount,
                             script))

\* line 337: a call of process_etf_data with the provider's replies to it
record_enter(symbol, start_date, end_date, investment_amount, script) ==
    [status            |-> "called",
     symbol            |-> symbol,
     start_date        |-> start_date,
     end_date          |-> end_date,
     investment_amount |-> investment_amount,
     script            |-> script,
     price_result      |-> None,
     current_data      |-> None,
     dividend_data     |-> None,
     calls             |-> <<>>,
     out               |-> None]

\* lines 344 and 394-413: the call has returned, or an exception left it
record_return(f, out) == [f EXCEPT !.status = "returned", !.out = Some(out)]

\* a faulty variant of lines 342-344: after a failure of the resolver the
\* current price is still looked up before the return
record_historical_then_current(f) ==
    Let(get_historical_price_with_fallback(f.symbol, f.start_date, f.script.hist),
        LAMBDA price_result :
        IF ~IsNone(price_result.error)
        THEN record_return([f EXCEPT !.price_result = Some(price_result),
                                     !.calls = @ \o <<"get_historical_price_with_fallback",
                                                      "get_current_market_price">>],
                           Returned(None, price_result.error))
        ELSE [f EXCEPT !.status = "shares",
                       !.price_result = Some(price_result),
                       !.calls = Append(@, "get_historical_price_with_fallback")])

\* lines 342-344: the historical price is asked for; its failure ends the call
record_historical(f) ==
    Let(get_historical_price_with_fallback(f.symbol, f.start_date, f.script.hist),
        LAMBDA price_result :
        LET g == [f EXCEPT !.price_result = Some(price_result),
                           !.calls = Append(@, "get_historical_price_with_fallback")]
        IN  IF ~IsNone(price_result.error)
            THEN record_return(g, Returned(None, price_result.error))
            ELSE [g EXCEPT !.status = "shares"])

\* lines 346-353: the shares; a price of 0.0 raises
record_shares(f) ==
    IF Get(Get(f.price_result).price) = 0
    THEN record_return(f, Raised("float division by zero"))
    ELSE [f EXCEPT !.status = "current"]

\* lines 356-370: the current price is asked for; with nothing invested the
\* percentage of line 363 raises
record_current(f) ==
    Let(get_current_market_price(f.symbol, f.script.current),
        LAMBDA current_data :
        LET g == [f EXCEPT !.current_data = Some(current_data),
                           !.calls = Append(@, "get_current_market_price")]
        IN  IF current_data.success /\ f.investment_amount = 0
            THEN record_return(g, Raised("float division by zero"))
            ELSE [g EXCEPT !.status = "info"])

\* lines 373-379: the additional information is asked for
record_info(f) ==
    [f EXCEPT !.status = "dividends", !.calls = Append(@, "get_etf_additional_info")]

\* lines 381-385: the dividends are asked for, from the resolved start date
record_dividends(f) ==
    Let(get_dividends_for_period(f.symbol,
                                 dividend_window_start(Get(f.price_result), f.start_date),
                                 f.end_date,
                                 shares_of(f.investment_amount, Get(Get(f.price_result).price)),
                                 f.script.dividends),
        LAMBDA dividend_data :
        [f EXCEPT !.status = "build",
                  !.dividend_data = Some(dividend_data),
                  !.calls = Append(@, "get_dividends_for_period")])

\* lines 387-413: the record is built and returned
record_build(f) ==
    record_return(f, Returned(Some(build_record(f.symbol, Get(f.price_result),
                                                Get(f.current_data), f.script.nav,
                                                Get(f.dividend_data), f.investment_amount)),
                              None))

-----------------------------------------------------------------------------
(* The provider's replies to the calls made for one symbol: every ticker
   format of the symbol gets the same reply at a given call site *)

\* the end of the period a caller passes: the day of the run, as text
end_date == strftime_ymd(Today)

Row(date, value) == [date |-> date, col |-> "Open", value |-> value]

CloseRow(date, value) == [date |-> date, col |-> "Close", value |-> value]

Uniform(symbol, reply) ==
    [k \in 1..Len(get_international_ticker_formats(symbol)) |-> reply]

BatchHistReplies(symbol) ==
    LET p     == to_datetime(START_DATE)
        empty == ProviderData(<<>>)
        err   == ProviderError(symbol)
    IN  { <<err, err>>,
          <<ProviderData(<<Row(p, 10000)>>), empty>>,
          <<ProviderData(<<Row(p, 0)>>), empty>>,
          <<ProviderData(<<Row(p + 1, 10000)>>), empty>>,
          <<empty, empty>>,
          <<empty, ProviderData(<<Row(p + 62, 10000), Row(p + 63, 10100)>>)>>,
          <<empty, ProviderData(<<Row(p - 30, 10000)>>)>> }

BatchCurrentReplies(symbol) ==
    { [history |-> ProviderError(symbol), info |-> [err |-> TRUE, regularMarketPrice |-> None]],
      [history |-> ProviderData(<<CloseRow(Today - 3, 10900), CloseRow(Today - 2, 11000)>>),
       info    |-> [err |-> FALSE, regularMarketPrice |-> Some(11100)]] }

BatchNavReplies == {None, Some(9800)}

BatchDividendReplies(symbol) ==
    LET p == to_datetime(START_DATE)
    IN  { [err |-> TRUE, tz |-> None, rows |-> <<>>],
          [err |-> FALSE, tz |-> Some(0 - 5),
           rows |-> <<[date |-> p + 30, col |-> "Dividends", value |-> 75],
                      [date |-> p + 120, col |-> "Dividends", value |-> 75]>>] }

BatchPrimaryScripts(symbol) ==
    { [hist      |-> Uniform(symbol, h),
       current   |-> Uniform(symbol, c),
       nav       |-> n,
       dividends |-> Uniform(symbol, d)]
      : h \in BatchHistReplies(symbol), c \in BatchCurrentReplies(symbol),
        n \in BatchNavReplies, d \in BatchDividendReplies(symbol) }

-----------------------------------------------------------------------------
(* The specification of one call of process_etf_data *)

\* the amounts a caller invests: nothing, or the configured amount
RecordInvestments == {0, INVESTMENT_PER_ETF}

\* replies of a plain holding: bought at 50.00 on the preferred date, last
\* close 55.00, payments of 0.50 and 0.25 per share within the period
ExampleScripts(symbol) ==
    LET p == to_datetime(START_DATE)
    IN  { [hist      |-> Uniform(symbol, <<ProviderData(<<Row(p, 5000)>>), ProviderData(<<>>)>>),
           current   |-> Uniform(symbol,
                             [history |-> ProviderData(<<CloseRow(Today - 3, 5400),
                                                         CloseRow(Today - 2, 5500)>>),
                              info    |-> [err |-> FALSE, regularMarketPrice |-> Some(5600)]]),
           nav       |-> None,
           dividends |-> Uniform(symbol,
                             [err |-> FALSE, tz |-> Some(0 - 5),
                              rows |-> <<[date |-> p + 30, col |-> "Dividends", value |-> 50],
                                         [date |-> p + 120, col |-> "Dividends",
                                          value |-> 25]>>])] }

\* replies of a holding whose percentages fall half way between two tenths:
\* bought at 100.00 on the preferred date, last close 100.05 (a gain of
\* 0.05%), one payment of 0.10 per share (a total return of 0.15%)
HalfwayScripts(symbol) ==
    LET p == to_datetime(START_DATE)
    IN  { [hist      |-> Uniform(symbol, <<ProviderData(<<Row(p, 10000)>>), ProviderData(<<>>)>>),
           current   |-> Uniform(symbol,
                             [history |-> ProviderData(<<CloseRow(Today - 2, 10005)>>),
                              info    |-> [err |-> FALSE, regularMarketPrice |-> None]]),
           nav       |-> None,
           dividends |-> Uniform(symbol,
                             [err |-> FALSE, tz |-> None,
                              rows |-> <<[date |-> p + 30, col |-> "Dividends",
                                          value |-> 10]>>])] }

RecordScripts(symbol) ==
    BatchPrimaryScripts(symbol) \cup ExampleScripts(symbol) \cup HalfwayScripts(symbol)

InitRecord ==
    /\ \E symbol \in ProbeSymbols, investment_amount \in RecordInvestments :
           \E script \in RecordScripts(symbol) :
               rec = record_enter(symbol, START_DATE, end_date, investment_amount, script)
    /\ hist = Idle
    /\ ver = Idle
    /\ cur = Idle
    /\ dvd = Idle
    /\ pc = "idle"
    /\ market = None
    /\ etf_index = 0
    /\ results = None
    /\ verification_results = None
    /\ working_etfs = None
    /\ failed_etfs = None
    /\ journal = <<>>
    /\ fmt = Idle

RecordHistorical ==
    /\ rec.status = "called"
    /\ rec' = record_historical(rec)
    /\ UNCHANGED <<fmt, hist, ver, cur, dvd, pc, market, etf_index, results, verification_results,
                   working_etfs, failed_etfs, journal>>

RecordShares ==
    /\ rec.status = "shares"
    /\ rec' = record_shares(rec)
    /\ UNCHANGED <<fmt, hist, ver, cur, dvd, pc, market, etf_index, results, verification_results,
                   working_etfs, failed_etfs, journal>>

RecordCurrent ==
    /\ rec.status = "current"
    /\ rec' = record_current(rec)
    /\ UNCHANGED <<fmt, hist, ver, cur, dvd, pc, market, etf_index, results, verification_results,
                   working_etfs, failed_etfs, journal>>

RecordInfo ==
    /\ rec.status = "info"
    /\ rec' = record_info(rec)
    /\ UNCHANGED <<fmt, hist, ver, cur, dvd, pc, market, etf_index, results, verification_results,
                   working_etfs, failed_etfs, journal>>

RecordDividends ==
    /\ rec.status = "dividends"
    /\ rec' = record_dividends(rec)
    /\ UNCHANGED <<fmt, hist, ver, cur, dvd, pc, market, etf_index, results, verification_results,
                   working_etfs, failed_etfs, journal>>

RecordBuild ==
    /\ rec.status = "build"
    /\ rec' = record_build(rec)
    /\ UNCHANGED <<fmt, hist, ver, cur, dvd, pc, market, etf_index, results, verification_results,
                   working_etfs, failed_etfs, journal>>

NextRecord ==
    \/ RecordHistorical
    \/ RecordShares
    \/ RecordCurrent
    \/ RecordInfo
    \/ RecordDividends
    \/ RecordBuild

SpecRecord == InitRecord /\ [][NextRecord]_vars

-----------------------------------------------------------------------------
(* The specification of a run of the program *)

\* The program is started as `python main.py` (main.py line 6 imports
\* Analysis) or as `python Analysis.py`.  Either way Python compiles
\* src/Analysis.py before it runs any statement of it, and the file does not
\* compile: line 26 (results = []) starts at column 0 inside the body of
\* main and line 27 is indented again, an IndentationError ("unexpected
\* indent", line 27).  The exception leaves the program; main is never
\* defined and none of its statements runs, whatever the market would have
\* answered.

\* the replies the provider would give to the primary path of a symbol
MarketPrimaryScripts(symbol) ==
    LET p     == to_datetime(START_DATE)
        empty == ProviderData(<<>>)
        err   == ProviderError(symbol)
    IN  { [hist      |-> Uniform(symbol, h),
           current   |-> Uniform(symbol,
                             [history |-> ProviderData(<<CloseRow(Today - 2, 11000)>>),
                              info    |-> [err |-> FALSE, regularMarketPrice |-> None]]),
           nav       |-> None,
           dividends |-> Uniform(symbol, [err |-> TRUE, tz |-> None, rows |-> <<>>])]
          : h \in { <<err, err>>,
                    <<empty, empty>>,
                    <<ProviderData(<<Row(p, 10000)>>), empty>>,
                    <<ProviderData(<<Row(p, 0)>>), empty>> } }

\* the replies the provider would give to the verifier's two methods
MarketVerifyScripts(symbol) ==
    LET p   == to_datetime(START_DATE)
        err == ProviderError(symbol)
    IN  { [k \in 1..Len(verify_symbols_to_try(symbol)) |-> r]
          : r \in { <<err, err>>,
                    <<ProviderData(<<Row(p, 10000)>>), err>>,
                    <<ProviderData(<<Row(p, 10000)>>), ProviderData(<<Row(p, 10100)>>)>>,
                    <<ProviderData(<<Row(p, 10000)>>), ProviderData(<<Row(p, 10300)>>)>>,
                    <<ProviderData(<<Row(p, 0)>>), ProviderData(<<Row(p, 0)>>)>> } }

\* the markets a run may meet: for the symbol at each index of INCOME_ETFS,
\* the replies to its primary path and to the verifier
RECURSIVE MarketsOf(_)
MarketsOf(n) ==
    IF n = 0 THEN {<<>>}
    ELSE { Append(m, [primary |-> a, verifier |-> v])
           : m \in MarketsOf(n - 1),
             a \in MarketPrimaryScripts(INCOME_ETFS[n]),
             v \in MarketVerifyScripts(INCOME_ETFS[n]) }

\* the program has not started: no name of main is bound
Init ==
    /\ market \in MarketsOf(Len(INCOME_ETFS))
    /\ etf_index = 0
    /\ pc = "start"
    /\ results = None
    /\ verification_results = None
    /\ working_etfs = None
    /\ failed_etfs = None
    /\ journal = <<>>
    /\ hist = Idle
    /\ ver = Idle
    /\ fmt = Idle
    /\ cur = Idle
    /\ dvd = Idle
    /\ rec = Idle

\* compiling src/Analysis.py: lines 26-27
compile_analysis == "IndentationError"

\* python main.py: line 6 of main.py, import Analysis
RunMainScript ==
    /\ pc = "start"
    /\ pc' = compile_analysis
    /\ UNCHANGED <<market, etf_index, results, verification_results, working_etfs, failed_etfs,
                   journal>>
    /\ UNCHANGED <<hist, ver, cur, dvd, rec, fmt>>

\* python Analysis.py: the file is compiled before line 1 runs
RunAnalysisScript ==
    /\ pc = "start"
    /\ pc' = compile_analysis
    /\ UNCHANGED <<market, etf_index, results, verification_results, working_etfs, failed_etfs,
                   journal>>
    /\ UNCHANGED <<hist, ver, cur, dvd, rec, fmt>>

Next ==
    \/ RunMainScript
    \/ RunAnalysisScript

Spec == Init /\ [][Next]_vars

-----------------------------------------------------------------------------
(* Batch Orchestrator: the statements of main in src/Analysis.py *)

\* No run of the program reaches main (compile_analysis).  What is modelled
\* here is what the statements of lines 28-135 do as they are written, that
\* is, in a copy of the file whose line 26 stands at the indentation of its
\* neighbours; the ERROR-record append of lines 105-117 is taken where its
\* indentation puts it: after the for loop.

\* lines 57-69: the degraded record of a symbol priced by the verifier;
\* initial_price is the average of the verifier's prices, and each rounded
\* field is round() of the float the code holds
degraded_record(etf, initial_price, shares_purchased, status, prices) ==
    Record(etf,
           round_float(initial_price, float_average(prices), 100),
           0, None,
           round_float(FracMul(shares_purchased, FracOfInt(100)),
                       float_div(float_of_int(INVESTMENT_PER_ETF), float_average(prices)),
                       100),
           0, 0, 0, 0, 0, 0, status, None, None, None)

\* lines 80-92 and 105-117: a record with every financial field zero
zero_record(etf, status) ==
    Record(etf, 0, 0, None, 0, 0, 0, 0, 0, 0, 0, status, None, None, None)

VerificationEntry(symbol, main_price, verification) ==
    [symbol |-> symbol, main_price |-> main_price, verification |-> verification]

\* line 42: {'verified': True}
PrimaryVerification == Outcome(None, TRUE, None, None, None, None)

\* line 97
NoDataVerification ==
    Outcome(None, FALSE, None, None, None, Some("No data available from any source"))

\* lines 36-43: the primary path gave a record
primary_success(res, vres, etf, etf_data) ==
    [results |-> Append(res, etf_data),
     verification_results |->
         Append(vres, VerificationEntry(etf, FracOfInt(etf_data.Initial_Share_Price_USD),
                                        PrimaryVerification)),
     raised |-> FALSE]

\* lines 50-100: the record built from the verifier's answer
fallback_record(res, vres, etf, verification) ==
    IF ~IsNone(verification.average)
    THEN LET initial_price == Get(verification.average)
         IN  IF initial_price.num = 0
             THEN \* line 53 divides by the price: ZeroDivisionError
                  [results |-> res, verification_results |-> vres, raised |-> TRUE]
             ELSE LET shares_purchased ==
                          FracDiv(FracOfInt(INVESTMENT_PER_ETF * CentsPerDollar), initial_price)
                      status == get_verification_status(verification)
                  IN  [results |-> Append(res, degraded_record(etf, initial_price,
                                                               shares_purchased, status,
                                                               Get(verification.prices))),
                       verification_results |->
                           Append(vres, VerificationEntry(etf, initial_price, verification)),
                       raised |-> FALSE]
    ELSE [results |-> Append(res, zero_record(etf, STATUS_NO_DATA)),
          verification_results |->
              Append(vres, VerificationEntry(etf, FracOfInt(0), NoDataVerification)),
          raised |-> FALSE]

\* lines 105-117: the ERROR record; at this indentation the statement follows
\* the for loop, and etf is the loop's last symbol
error_entry(res, etf) == Append(res, zero_record(etf, STATUS_ERROR))

\* a faulty variant of lines 123-124: only the ERROR records are failed
is_failed_error_only(record) == record.Verified = STATUS_ERROR

\* lines 123-124
is_failed(record) == str_contains(record.Verified, RED_CIRCLE)

split_working(res) == SelectSeq(res, LAMBDA r : ~is_failed(r))

split_failed(res) == SelectSeq(res, LAMBDA r : is_failed(r))

\* lines 164-171 of print_results: the verification rate divides by the
\* number of entries
verification_rate_raises(vres) == Len(vres) = 0

\* the replies of the provider to the two methods of the verifier
BatchVerifyReplies(symbol) ==
    LET p  == to_datetime(START_DATE)
        m1 == {ProviderError(symbol)}
                \cup {ProviderData(<<Row(p, x)>>) : x \in {0, 10000, 10100}}
        m2 == {ProviderError(symbol), ProviderData(<<>>)}
                \cup {ProviderData(<<Row(p - 1, 0), Row(p, y)>>) : y \in {0, 10100, 10300}}
    IN  m1 \X m2

BatchVerifyScripts(symbol) ==
    { [k \in 1..Len(verify_symbols_to_try(symbol)) |-> r] : r \in BatchVerifyReplies(symbol) }

\* a journal entry: the call made for the symbol at index, and what it gave
Event(index, step, outcome, answer) ==
    [index |-> index, step |-> step, outcome |-> outcome, answer |-> answer]

\* what a call of process_etf_data gave
PrimaryOutcome(out) ==
    IF out.raised THEN "raised"
    ELSE IF IsNone(out.etf_data) THEN "failed"
    ELSE "record"

\* a faulty variant of the test of lines 36 and 44: the verifier is asked
\* for every symbol
needs_fallback_always(out) == TRUE

\* lines 36 and 44: the record is missing, the verifier is the backup
needs_fallback(out) == IsNone(out.etf_data)

\* lines 26-29: the lists are empty, the loop is about to take its first symbol
InitMain ==
    /\ hist = Idle
    /\ ver = Idle
    /\ pc = "for"
    /\ market = None
    /\ etf_index = 1
    /\ results = <<>>
    /\ verification_results = <<>>
    /\ working_etfs = None
    /\ failed_etfs = None
    /\ journal = <<>>
    /\ fmt = Idle
    /\ cur = Idle
    /\ dvd = Idle
    /\ rec = Idle

\* lines 31-46 and 102-103: the loop takes the next symbol and runs the primary path
PrimaryStep ==
    /\ pc = "for"
    /\ etf_index <= Len(INCOME_ETFS)
    /\ LET etf == INCOME_ETFS[etf_index]
       IN  \E script \in BatchPrimaryScripts(etf) :
           \E out \in {process_etf_data(etf, START_DATE, end_date, INVESTMENT_PER_ETF, script)} :
             /\ journal' = Append(journal, Event(etf_index, "primary", PrimaryOutcome(out), None))
             /\ IF out.raised
                THEN /\ etf_index' = etf_index + 1
                     /\ UNCHANGED <<pc, results, verification_results>>
                ELSE IF ~needs_fallback(out)
                THEN \E upd \in {primary_success(results, verification_results, etf,
                                                 Get(out.etf_data))} :
                         /\ results' = upd.results
                         /\ verification_results' = upd.verification_results
                         /\ etf_index' = etf_index + 1
                         /\ UNCHANGED pc
                ELSE /\ pc' = "fallback"
                     /\ UNCHANGED <<etf_index, results, verification_results>>
    /\ UNCHANGED <<hist, ver, market, working_etfs, failed_etfs>>
    /\ UNCHANGED <<cur, dvd, rec, fmt>>

\* lines 47-103: the primary path failed; the verifier is asked
FallbackStep ==
    /\ pc = "fallback"
    /\ LET etf == INCOME_ETFS[etf_index]
       IN  \E script \in BatchVerifyScripts(etf) :
           \E verification \in {verify_price_with_alternative_source(etf, START_DATE, script)} :
           \E upd \in {fallback_record(results, verification_results, etf, verification)} :
             /\ results' = upd.results
             /\ verification_results' = upd.verification_results
             /\ journal' = Append(journal,
                    Event(etf_index, "verifier", IF upd.raised THEN "raised" ELSE "record",
                          Some(verification)))
    /\ pc' = "for"
    /\ etf_index' = etf_index + 1
    /\ UNCHANGED <<hist, ver, market, working_etfs, failed_etfs>>
    /\ UNCHANGED <<cur, dvd, rec, fmt>>

\* lines 105-117: after the loop
AppendErrorEntry ==
    /\ pc = "for"
    /\ etf_index > Len(INCOME_ETFS)
    /\ results' = error_entry(results, INCOME_ETFS[Len(INCOME_ETFS)])
    /\ pc' = "split"
    /\ UNCHANGED <<hist, ver, market, etf_index, verification_results, working_etfs,
                   failed_etfs, journal>>
    /\ UNCHANGED <<cur, dvd, rec, fmt>>

\* lines 119-124
Split ==
    /\ pc = "split"
    /\ working_etfs' = Some(split_working(results))
    /\ failed_etfs' = Some(split_failed(results))
    /\ pc' = "print_results"
    /\ UNCHANGED <<hist, ver, market, etf_index, results, verification_results, journal>>
    /\ UNCHANGED <<cur, dvd, rec, fmt>>

\* line 127: print_results; an exception here leaves main
PrintResults ==
    /\ pc = "print_results"
    /\ pc' = IF verification_rate_raises(verification_results) THEN "raised" ELSE "report"
    /\ UNCHANGED <<hist, ver, market, etf_index, results, verification_results,
                   working_etfs, failed_etfs, journal>>
    /\ UNCHANGED <<cur, dvd, rec, fmt>>

\* lines 129-135: the HTML report is written
Report ==
    /\ pc = "report"
    /\ pc' = "done"
    /\ UNCHANGED <<hist, ver, market, etf_index, results, verification_results,
                   working_etfs, failed_etfs, journal>>
    /\ UNCHANGED <<cur, dvd, rec, fmt>>

NextMain ==
    \/ PrimaryStep
    \/ FallbackStep
    \/ AppendErrorEntry
    \/ Split
    \/ PrintResults
    \/ Report

SpecMain == InitMain /\ [][NextMain]_vars

-----------------------------------------------------------------------------
(* Properties of a run of the program (Spec) *)

\* the run has ended
Ended == pc # "start"

\* what the primary path would give for the symbol at index i on this market
primary_of(i) ==
    process_etf_data(INCOME_ETFS[i], START_DATE, end_date, INVESTMENT_PER_ETF,
                     market[i].primary)

\* the records of results that name the symbol at index i
records_of(i) ==
    {k \in 1..Len(results) : results[k].Symbol \in {INCOME_ETFS[i], INCOME_ETFS[i] \o "**"}}

\* every financial field of the record is zero
all_zero(r) ==
    /\ r.Initial_Share_Price_USD = 0
    /\ r.Shares_Purchased = 0
    /\ r.Current_Share_Price_USD = 0
    /\ r.Current_Portfolio_Value_USD = 0
    /\ r.Dividends_Collected_USD = 0
    /\ r.Gain_Loss_USD = 0
    /\ r.Gain_Loss_Pct = 0
    /\ r.Total_Return_USD = 0
    /\ r.Total_Return_Pct = 0

\* C1: when the run has ended, the results hold exactly one record for each
\* configured symbol, and the working and the failed records together are
\* N, whatever the outcome of each symbol.
C1_OneRecordPerSymbol ==
    Ended =>
        /\ Len(results) = Len(INCOME_ETFS)
        /\ \A i \in 1..Len(INCOME_ETFS) : Cardinality(records_of(i)) = 1
        /\ ~IsNone(working_etfs)
        /\ ~IsNone(failed_etfs)
        /\ Len(Get(working_etfs)) + Len(Get(failed_etfs)) = Len(INCOME_ETFS)

\* C1, the case that breaks it: the primary path has a record to give for
\* every symbol, the run has ended, and there is no record and no split
C1_NoRecordOfAnySymbol ==
    /\ Ended
    /\ \A i \in 1..Len(INCOME_ETFS) : ~IsNone(primary_of(i).etf_data)
    /\ results = None
    /\ IsNone(working_etfs)
    /\ IsNone(failed_etfs)

\* C2: when processing a symbol raises an exception, a record with status
\* ERROR and every financial field zero is produced for that symbol, the
\* exception stays inside the step, and every later symbol is processed.
C2_ErrorRecordForRaisingSymbol ==
    Ended =>
        \A i \in 1..Len(INCOME_ETFS) :
            primary_of(i).raised =>
                /\ \E k \in records_of(i) :
                       results[k].Verified = STATUS_ERROR /\ all_zero(results[k])
                /\ \A later \in (i + 1)..Len(INCOME_ETFS) :
                       \E m \in 1..Len(journal) :
                           journal[m].index = later /\ journal[m].step = "primary"

\* C2, the case that breaks it: the step of the first symbol would raise
\* (an opening price of 0.00 is divided by), the run has ended, and no
\* record names the symbol
C2_RaisingSymbolWithoutRecord ==
    /\ Ended
    /\ primary_of(1).raised
    /\ records_of(1) = {}

\* C23: whatever the provider answers and whichever symbols raise, a run
\* reaches reporting and finishes: no exception reaches the top level.
C23_NoExceptionLeavesMain == pc # "IndentationError"

\* C23, the case that breaks it: the exception raised when Analysis.py is
\* loaded has ended the run before any call was made
C23_RaisedWhenLoaded ==
    /\ pc = compile_analysis
    /\ journal = <<>>
    /\ results = None
    /\ verification_results = None

\* C27: after the batch the verification summary covers every symbol
\* processed: verification_results has an entry for each configured symbol
\* and as many entries as results has records, the symbols that ended in an
\* ERROR record included, and the entries counted as verified are no more
\* than the entries.
C27_SummaryCoversEveryRecord ==
    Ended =>
        /\ \A i \in 1..Len(INCOME_ETFS) :
               \E j \in 1..Len(verification_results) :
                   verification_results[j].symbol = INCOME_ETFS[i]
        /\ Len(verification_results) = Len(results)
        /\ Cardinality({j \in 1..Len(verification_results) :
                            verification_results[j].verification.verified})
               <= Len(verification_results)

\* C27, the case that breaks it: the run has ended and the summary has no
\* entry, neither for a symbol with a record to give nor for one whose step
\* would raise
C27_SummaryWithoutEntries ==
    /\ Ended
    /\ ~IsNone(primary_of(1).etf_data)
    /\ primary_of(2).raised
    /\ verification_results = None

-----------------------------------------------------------------------------
(* Properties of the statements of main (SpecMain) *)

\* C9: the verifier is called for a symbol only right after process_etf_data
\* returned a failure for that symbol, never for a symbol whose primary path
\* gave a record or raised, and at most once per symbol.
C9_VerifierOnlyAfterPrimaryFailure ==
    \A k \in 1..Len(journal) :
        journal[k].step = "verifier" =>
            /\ k > 1
            /\ journal[k - 1] = Event(journal[k].index, "primary", "failed", None)
            /\ \A m \in 1..Len(journal) :
                   /\ (m # k /\ journal[m].index = journal[k].index) => journal[m].step = "primary"
                   /\ (journal[m].index = journal[k].index /\ journal[m].step = "primary")
                          => journal[m].outcome = "failed"

\* C9, its case: one symbol priced by the primary path without the verifier,
\* another one handed to the verifier
C9_VerifierCalledOnce ==
    /\ pc = "done"
    /\ \E k \in 1..Len(journal) : journal[k].step = "verifier"
    /\ \E k \in 1..Len(journal) :
           /\ journal[k] = Event(journal[k].index, "primary", "record", None)
           /\ \A m \in 1..Len(journal) :
                  journal[m].index = journal[k].index => journal[m].step = "primary"

\* C10: a record built from the verifier's answer has status VERIFIED when
\* the answer is verified, ALT SOURCE when it has an average but is not
\* verified, NO DATA when it has no average; with an average, the initial
\* price is the average (to the cent) and the shares are the investment
\* divided by the average (to the hundredth); current price, current value,
\* dividends, gain/loss and total return are zero, and in the NO DATA case
\* every financial field is zero.
C10_FallbackRecord ==
    LET made == SelectSeq(journal, LAMBDA e : e.outcome = "record")
    IN  \A j \in 1..Len(made) :
            made[j].step = "verifier" =>
                LET v == Get(made[j].answer)
                    r == results[j]
                IN  /\ r.Symbol = INCOME_ETFS[made[j].index]
                    /\ r.Verified = IF v.verified THEN STATUS_VERIFIED
                                    ELSE IF ~IsNone(v.average) THEN STATUS_ALT_SOURCE
                                    ELSE STATUS_NO_DATA
                    /\ r.Current_Share_Price_USD = 0
                    /\ r.Current_Portfolio_Value_USD = 0
                    /\ r.Dividends_Collected_USD = 0
                    /\ r.Gain_Loss_USD = 0
                    /\ r.Gain_Loss_Pct = 0
                    /\ r.Total_Return_USD = 0
                    /\ r.Total_Return_Pct = 0
                    /\ ~IsNone(v.average) =>
                           /\ nearest_to(r.Initial_Share_Price_USD, Get(v.average), 1)
                           /\ nearest_to(r.Shares_Purchased,
                                         FracDiv(FracOfInt(INVESTMENT_PER_ETF * CentsPerDollar),
                                                 Get(v.average)), 100)
                    /\ IsNone(v.average) =>
                           /\ r.Initial_Share_Price_USD = 0
                           /\ r.Shares_Purchased = 0

\* C10, its case: one record with a verified average of two prices, one
\* with an unverified average, both built from the verifier's answer
C10_DegradedRecords ==
    LET made == SelectSeq(journal, LAMBDA e : e.outcome = "record")
    IN  /\ \E j \in 1..Len(made) :
               /\ made[j].step = "verifier"
               /\ results[j].Verified = STATUS_VERIFIED
               /\ results[j].Initial_Share_Price_USD = 10050
               /\ results[j].Shares_Purchased = 9950
        /\ \E j \in 1..Len(made) :
               /\ made[j].step = "verifier"
               /\ results[j].Verified = STATUS_ALT_SOURCE
               /\ results[j].Initial_Share_Price_USD = 10100
               /\ results[j].Shares_Purchased = 9901

\* C24: after the split every record is in exactly one of working_etfs
\* and failed_etfs: in failed_etfs if and only if its status is NO DATA or
\* ERROR, in working_etfs otherwise (VERIFIED and ALT SOURCE, the degraded
\* records included); each of the two keeps the order of results.
C24_PartitionByStatus ==
    ~IsNone(working_etfs) =>
        LET failed_status(r) == r.Verified \in {STATUS_NO_DATA, STATUS_ERROR}
            working == Get(working_etfs)
            failed  == Get(failed_etfs)
        IN  /\ working = SelectSeq(results, LAMBDA r : ~failed_status(r))
            /\ failed = SelectSeq(results, failed_status)
            /\ Len(working) + Len(failed) = Len(results)
            /\ \A k \in 1..Len(working) :
                   working[k].Verified \in {STATUS_VERIFIED, STATUS_ALT_SOURCE}

\* C24, its case: a degraded ALT SOURCE record is working, the NO DATA and
\* the ERROR record behind it are failed, in the order of results
C24_DegradedWorkingOthersFailed ==
    /\ ~IsNone(working_etfs)
    /\ Len(results) = 3
    /\ results[1].Verified = STATUS_ALT_SOURCE
    /\ results[1].Current_Share_Price_USD = 0
    /\ Get(working_etfs) = <<results[1]>>
    /\ Get(failed_etfs) = <<results[2], results[3]>>
    /\ results[2].Verified = STATUS_NO_DATA
    /\ results[3].Verified = STATUS_ERROR

-----------------------------------------------------------------------------
(* Properties of the historical resolver (SpecHist) *)

\* C3: the resolver queries the ticker formats in the expander's order, the
\* preferred window first and the widened window only after an empty
\* preferred one; the first non-empty table ends the search: no query
\* follows it, and the quote returned is that table's first row under that
\* ticker format.
C3_FirstVariantWins ==
    hist.status # "idle" =>
        LET formats == get_international_ticker_formats(hist.symbol)
            calls   == hist.calls
            n       == Len(calls)
            Pos(t)  == CHOOSE i \in 1..Len(formats) : formats[i] = t
        IN  /\ \A k \in 1..n : \E i \in 1..Len(formats) : calls[k].ticker = formats[i]
            /\ n > 0 => calls[1].ticker = formats[1] /\ calls[1].window = "preferred"
            /\ \A k \in 1..(n - 1) :
                   IF calls[k].window = "preferred" /\ calls[k].outcome = "empty"
                   THEN calls[k + 1].ticker = calls[k].ticker /\ calls[k + 1].window = "widened"
                   ELSE /\ Pos(calls[k].ticker) < Len(formats)
                        /\ calls[k + 1].ticker = formats[Pos(calls[k].ticker) + 1]
                        /\ calls[k + 1].window = "preferred"
            /\ \A k \in 1..n :
                   calls[k].outcome = "data" =>
                       /\ k = n
                       /\ hist.status = "returned"
                       /\ Get(hist.result).ticker = Some(calls[k].ticker)
                       /\ Get(hist.result).price = Some(Get(calls[k].first).value)
                       /\ IsNone(Get(hist.result).error)
            /\ (hist.status = "returned" /\ IsNone(Get(hist.result).error)) =>
                   n > 0 /\ calls[n].outcome = "data"

\* C3, its case: the third ticker format is the first one with data, found
\* in its widened window, after the two formats before it gave none
C3_ThirdVariantWins ==
    /\ hist.status = "returned"
    /\ hist.symbol = "FSCO"
    /\ Get(hist.result).ticker = Some("FSCO.TSE")
    /\ Len(hist.calls) >= 4
    /\ hist.calls[Len(hist.calls)].window = "widened"

\* C4: with a non-empty preferred window, is_fallback is true exactly when
\* the first trading day returned differs from the preferred date; with an
\* empty preferred window and a non-empty widened one, is_fallback is true
\* and the date reported is the first trading day of the widened window
\* (preferred 2025-01-02, first trading day 2025-03-05: fallback, 2025-03-05).
C4_FallbackFlag ==
    (hist.status = "returned" /\ IsNone(Get(hist.result).error)) =>
        LET quote == Get(hist.result)
            last  == hist.calls[Len(hist.calls)]
            row   == Get(last.first)
        IN  /\ quote.date = Some(strftime_ymd(row.date))
            /\ last.window = "preferred" =>
                   (quote.is_fallback <=> row.date # to_datetime(hist.preferred_date))
            /\ last.window = "widened" => quote.is_fallback
            /\ (hist.preferred_date = "2025-01-02" /\ row.date = to_datetime("2025-03-05")) =>
                   quote.is_fallback /\ quote.date = Some("2025-03-05")

\* C4, its case: the widened window gave 2025-03-05 as first trading day
C4_LaterFirstTradingDay ==
    /\ hist.status = "returned"
    /\ hist.preferred_date = "2025-01-02"
    /\ hist.calls # <<>>
    /\ hist.calls[Len(hist.calls)].window = "widened"
    /\ Get(hist.result).date = Some("2025-03-05")
    /\ Get(hist.result).is_fallback

\* C5: a date the resolver returns is on or after the preferred date, for
\* every reply of the provider, the widened search included.
C5_DateNotBeforePreferred ==
    (hist.status = "returned" /\ IsNone(Get(hist.result).error)) =>
        to_datetime(Get(Get(hist.result).date)) >= to_datetime(hist.preferred_date)

\* C5, the case that breaks it: the widened window starts 90 days before
\* the preferred date, and its first row is of 2024-12-03
C5_EarlierDateReturned ==
    /\ hist.status = "returned"
    /\ hist.preferred_date = "2025-01-02"
    /\ Get(hist.result).date = Some("2024-12-03")
    /\ Get(hist.result).is_fallback

\* C6: a provider error on a ticker format does not end the search, the next
\* format is queried; when no format gives data the resolver returns a
\* failure (no price, a non-empty error) that carries the message of the last
\* provider error, and process_etf_data returns (None, error) for it.
C6_ErrorsAreNotFatal ==
    hist.status = "returned" =>
        LET formats == get_international_ticker_formats(hist.symbol)
            calls   == hist.calls
            n       == Len(calls)
            Pos(t)  == CHOOSE i \in 1..Len(formats) : formats[i] = t
            errors  == SelectSeq(calls, LAMBDA c : c.outcome = "error")
            res     == Get(hist.result)
        IN  /\ \A k \in 1..n :
                   (calls[k].outcome = "error" /\ Pos(calls[k].ticker) < Len(formats)) =>
                       /\ k < n
                       /\ calls[k + 1].ticker = formats[Pos(calls[k].ticker) + 1]
            /\ ~IsNone(res.error) =>
                   /\ IsNone(res.price)
                   /\ Get(res.error) # ""
                   /\ {calls[k].ticker : k \in 1..n} = {formats[i] : i \in 1..Len(formats)}
                   /\ \A k \in 1..n : calls[k].outcome # "data"
                   /\ Get(res.error) =
                          "No data available with any ticker format. Last error: "
                              \o (IF errors = <<>> THEN "None"
                                  ELSE ProviderError(errors[Len(errors)].ticker).msg)
                   /\ process_price_result(hist.symbol, hist.preferred_date, res, end_date,
                                           INVESTMENT_PER_ETF, <<>>)
                          = Returned(None, res.error)

\* C6, its case: the first format failed with an error, the search went on,
\* and the failure returned carries the error of the fourth format, the
\* last one that failed
C6_FailureCarriesLastError ==
    /\ hist.status = "returned"
    /\ hist.symbol = "FSCO"
    /\ hist.calls[1].outcome = "error"
    /\ Get(hist.result).error =
           Some("No data available with any ticker format. Last error: provider error for FSCO.AX")

-----------------------------------------------------------------------------
(* Properties of the verifier (SpecVerify) *)

\* C7: no price: not verified, an error, no average; one price: not
\* verified, the average is that price; two or more prices: the average is
\* their arithmetic mean and the answer is verified exactly when the largest
\* |price - average| / average is at most 0.01, a deviation of exactly 1%
\* included.
C7_Classification ==
    ver.status = "returned" =>
        LET prices == ver.prices
            n      == Len(prices)
            S      == Sum(prices)
            res    == Get(ver.result)
        IN  /\ n = 0 => ~res.verified /\ ~IsNone(res.error) /\ IsNone(res.average)
            /\ n = 1 => ~res.verified /\ res.average = Some([num |-> prices[1], den |-> 1])
            /\ n >= 2 =>
                   /\ ~IsNone(res.average)
                   /\ Get(res.average).num * n = S * Get(res.average).den
                   /\ res.verified <=>
                          \A k \in 1..n : 100 * AbsDiff(n * prices[k], S) <= S

\* C7, the failing case: 0.99 and 1.01, each exactly 1% away from their mean
\* 1.00, are not verified: the code's max_diff is the float just above 0.01
C7_ExactlyOnePercentRejected ==
    /\ ver.status = "returned"
    /\ ver.prices = <<99, 101>>
    /\ ~Get(ver.result).verified
    /\ Get(ver.result).average = Some([num |-> 100, den |-> 1])
    /\ Get(ver.result).discrepancy = Some([num |-> 1, den |-> 100])

\* C8: the scan of ticker formats stops at the first format that gave a
\* price: the prices collected come from one format, they are at most two,
\* one per method, and no later format is queried.
C8_SingleVariant ==
    ver.status # "idle" =>
        LET calls  == ver.calls
            priced == {k \in 1..Len(calls) : calls[k].outcome = "data"}
        IN  /\ Len(ver.prices) <= 2
            /\ Len(ver.prices) = Cardinality(priced)
            /\ Len(ver.methods) = Len(ver.prices)
            /\ \A j, k \in priced :
                   /\ calls[j].ticker = calls[k].ticker
                   /\ j # k => calls[j].window # calls[k].window
            /\ \A k \in priced : \A m \in 1..Len(calls) :
                   m > k => calls[m].ticker = calls[k].ticker

\* C8, its case: the first format gave nothing, the second gave a price by
\* each method, and the third was never queried
C8_StoppedAtSecondVariant ==
    /\ ver.status = "returned"
    /\ ver.symbol = "FSCO"
    /\ Len(ver.prices) = 2
    /\ Len(ver.calls) = 4
    /\ ver.calls[4].ticker = "FSCO.TO"
    /\ ver.methods = <<"Method 1 (FSCO.TO)", "Method 2 (FSCO.TO)">>

\* C25: Method 2 is asked for every ticker format Method 1 was asked for,
\* whatever Method 1 answered (an error included); the price it adds is the
\* Open of the row of its download whose date is nearest to the target date
\* and, among rows equally near, of the first in the provider's order.
C25_ClosestRowEarlierOnTie ==
    LET calls  == ver.calls
        target == to_datetime(ver.target_date)
        passes == Len(calls) \div 2
    IN  ver.status # "idle" =>
            /\ Len(calls) = 2 * passes
            /\ \A n \in 1..passes :
                   /\ calls[2 * n - 1].window = "method1"
                   /\ calls[2 * n].window = "method2"
                   /\ calls[2 * n].ticker = calls[2 * n - 1].ticker
            /\ (passes > 0 /\ calls[2 * passes].outcome = "data") =>
                   LET rows == calls[2 * passes].rows
                       near(i) == AbsDiff(rows[i].date, target)
                       pick == CHOOSE i \in 1..Len(rows) :
                                   /\ \A j \in 1..Len(rows) : near(i) <= near(j)
                                   /\ \A j \in 1..(i - 1) : near(i) < near(j)
                   IN  /\ ver.prices # <<>>
                       /\ ver.prices[Len(ver.prices)] = rows[pick].value
                       /\ ver.methods[Len(ver.methods)]
                              = "Method 2 (" \o calls[2 * passes].ticker \o ")"
            /\ (passes > 0 /\ calls[2 * passes].outcome # "data") =>
                   Len(ver.prices) = (IF calls[2 * passes - 1].outcome = "data" THEN 1 ELSE 0)

\* C25, its case: Method 1 failed, the download of Method 2 has a row the
\* day before and a row the day after the target date, and the price added
\* is the Open of the day before
C25_DayBeforeChosen ==
    /\ Len(ver.calls) = 2
    /\ ver.calls[1].outcome = "error"
    /\ ver.calls[2].outcome = "data"
    /\ Len(ver.calls[2].rows) = 2
    /\ ver.calls[2].rows[1].date = to_datetime(ver.target_date) - 1
    /\ ver.calls[2].rows[2].date = to_datetime(ver.target_date) + 1
    /\ ver.calls[2].rows[1].value = 9900
    /\ ver.calls[2].rows[2].value = 10000
    /\ ver.prices = <<9900>>

-----------------------------------------------------------------------------
(* Properties of the current-price resolver (SpecCurrent) *)

\* C12: the ticker formats are queried in the expander's order, .info only
\* after an empty history of the same format; the first format with a
\* non-empty history gives the close of its last row and that row's date,
\* or, its history being empty, the first format with a regularMarketPrice
\* that is present and not zero gives that price and no date; nothing is
\* queried after it; an error moves on to the next format, and the failure
\* comes only after every format has been queried.
C12_FirstVariantWithPrice ==
    cur.status # "idle" =>
        LET formats == get_international_ticker_formats(cur.symbol)
            calls   == cur.calls
            n       == Len(calls)
            Pos(t)  == CHOOSE i \in 1..Len(formats) : formats[i] = t
            Wins(c) == \/ c.method = "history" /\ c.outcome = "data"
                       \/ c.method = "info" /\ c.outcome = "price" /\ Get(c.last) # 0
        IN  /\ n > 0 => calls[1].ticker = formats[1] /\ calls[1].method = "history"
            /\ \A k \in 1..(n - 1) :
                   /\ ~Wins(calls[k])
                   /\ IF calls[k].method = "history" /\ calls[k].outcome = "empty"
                      THEN calls[k + 1].ticker = calls[k].ticker /\ calls[k + 1].method = "info"
                      ELSE /\ Pos(calls[k].ticker) < Len(formats)
                           /\ calls[k + 1].ticker = formats[Pos(calls[k].ticker) + 1]
                           /\ calls[k + 1].method = "history"
            /\ (n > 0 /\ Wins(calls[n])) =>
                   /\ cur.status = "returned"
                   /\ Get(cur.result).success
                   /\ Get(cur.result).ticker_used = Some(calls[n].ticker)
                   /\ calls[n].method = "history" =>
                          /\ Get(cur.result).price = Some(Get(calls[n].last).value)
                          /\ Get(cur.result).date = Some(strftime_ymd(Get(calls[n].last).date))
                   /\ calls[n].method = "info" =>
                          /\ Get(cur.result).price = calls[n].last
                          /\ IsNone(Get(cur.result).date)
            /\ (cur.status = "returned" /\ Get(cur.result).success) => n > 0 /\ Wins(calls[n])
            /\ (cur.status = "returned" /\ ~Get(cur.result).success) =>
                   /\ {calls[k].ticker : k \in 1..n} = {formats[i] : i \in 1..Len(formats)}
                   /\ \A k \in 1..n : ~Wins(calls[k])

\* C12, its case: the first format failed with an error, the second had an
\* empty history and a regularMarketPrice of zero, the third an empty
\* history and a price, taken without a date
C12_ThirdVariantInfoPrice ==
    /\ cur.status = "returned"
    /\ cur.symbol = "FSCO"
    /\ cur.calls[1].outcome = "error"
    /\ Len(cur.calls) = 5
    /\ cur.calls[3] = InfoCall("FSCO.TO", [err |-> FALSE, regularMarketPrice |-> Some(0)])
    /\ Get(cur.result) = [success |-> TRUE, price |-> Some(11100), date |-> None,
                          ticker_used |-> Some("FSCO.TSE"), error |-> None]

-----------------------------------------------------------------------------
(* Properties of the dividend aggregator (SpecDividends) *)

\* C14: the dividend histories are fetched in the expander's order, one
\* fetch per ticker format; a format whose fetch fails or whose history is
\* empty is skipped; the first non-empty history is the one used, and no
\* format is fetched after it.
C14_FirstNonEmptyHistory ==
    dvd.status # "idle" =>
        LET formats == get_international_ticker_formats(dvd.symbol)
            calls   == dvd.calls
            n       == Len(calls)
        IN  /\ n <= Len(formats)
            /\ \A k \in 1..n : calls[k].ticker = formats[k]
            /\ \A k \in 1..n :
                   calls[k].outcome = "data" =>
                       /\ k = n
                       /\ dvd.status \in {"filter", "returned"}
                       /\ dvd.dividends = calls[k].series
            /\ dvd.status \in {"filter", "returned"} =>
                   \/ n > 0 /\ calls[n].outcome = "data"
                   \/ /\ n = Len(formats)
                      /\ IsNone(dvd.dividends)
                      /\ \A k \in 1..n : calls[k].outcome # "data"

\* C14, its case: the first format failed, the second had an empty history,
\* the third one's history is used and the fourth was never fetched
C14_ThirdHistoryUsed ==
    /\ dvd.status = "returned"
    /\ dvd.symbol = "FSCO"
    /\ Len(dvd.calls) = 3
    /\ dvd.calls[1].outcome = "error"
    /\ dvd.calls[2].outcome = "empty"
    /\ dvd.calls[3].ticker = "FSCO.TSE"
    /\ Get(dvd.result).dividend_count > 0

\* C15: a dividend whose ex-date is the first or the last day of the period
\* is in the sum, for naive ex-dates and for ex-dates of any UTC offset.
C15_BoundaryDividendsCounted ==
    (dvd.status = "returned" /\ ~IsNone(dvd.dividends)) =>
        LET rows    == Get(dvd.dividends).rows
            counted == Get(dvd.period_dividends)
        IN  \A k \in 1..Len(rows) :
                rows[k].date \in {to_datetime(dvd.start_date), to_datetime(dvd.end_date)} =>
                    \E j \in 1..Len(counted) : counted[j] = rows[k]

\* C15, the case that breaks it: ex-dates at midnight five hours west of
\* UTC, one on the first day of the period, one on the last; the bounds are
\* midnight UTC, and the payment of the last day is left out
C15_LastDayLeftOut ==
    /\ dvd.status = "returned"
    /\ ~IsNone(dvd.dividends)
    /\ Get(dvd.dividends).tz = Some(0 - 5)
    /\ Len(Get(dvd.dividends).rows) = 2
    /\ Get(dvd.dividends).rows[1].date = to_datetime(dvd.start_date)
    /\ Get(dvd.dividends).rows[2].date = to_datetime(dvd.end_date)
    /\ Get(dvd.result).dividend_count = 1

\* C16: the total is 0 and the count 0 when the history used has no ex-date
\* in the period and when no ticker format gave a history (every fetch
\* failing included); the two results are the same, and the record's
\* dividends collected are 0 for both.
C16_NoDividendsEitherWay ==
    dvd.status = "returned" =>
        LET nothing_found == IsNone(dvd.dividends)
            none_in_period == ~IsNone(dvd.dividends) /\ Get(dvd.period_dividends) = <<>>
            res == Get(dvd.result)
        IN  /\ (nothing_found \/ none_in_period) =>
                   /\ res = [total_dividends |-> FracOfInt(0), dividend_count |-> 0,
                             success |-> TRUE]
                   /\ nearest_to(0, res.total_dividends, 1)
            /\ ~(nothing_found \/ none_in_period) => res.dividend_count > 0

\* C16, its case: every fetch failed
C16_EveryFetchFailed ==
    /\ dvd.status = "returned"
    /\ dvd.symbol = "FSCO"
    /\ Len(dvd.calls) = 5
    /\ \A k \in 1..5 : dvd.calls[k].outcome = "error"
    /\ Get(dvd.result).total_dividends = FracOfInt(0)
    /\ Get(dvd.result).dividend_count = 0

-----------------------------------------------------------------------------
(* Claims about process_etf_data, checked under SpecRecord *)

\* C13: when the historical price is resolved and no current price is
\* found, the call still returns a record, marked as working, whose current
\* price, current value, gain/loss, gain/loss percent and total return
\* percent are 0, while its initial price, shares purchased and dividends
\* collected keep the values computed for them.
C13_CurrentPriceFailureKeepsRecord ==
    rec.status = "returned" =>
        LET price_result == get_historical_price_with_fallback(rec.symbol, rec.start_date,
                                                               rec.script.hist)
            current_lost == \A k \in 1..Len(rec.script.current) :
                                rec.script.current[k].history.err
            out          == Get(rec.out)
        IN  (IsNone(price_result.error) /\ Get(price_result.price) > 0 /\ current_lost) =>
                /\ ~out.raised
                /\ IsNone(out.error)
                /\ ~IsNone(out.etf_data)
                /\ LET r      == Get(out.etf_data)
                       shares == FracDiv(FracOfInt(rec.investment_amount * 100),
                                         FracOfInt(Get(price_result.price)))
                       paid   == get_dividends_for_period(rec.symbol, Get(price_result.date),
                                                          rec.end_date, shares,
                                                          rec.script.dividends)
                   IN  /\ r.Current_Share_Price_USD = 0
                       /\ r.Current_Portfolio_Value_USD = 0
                       /\ r.Gain_Loss_USD = 0
                       /\ r.Gain_Loss_Pct = 0
                       /\ r.Total_Return_Pct = 0
                       /\ r.Initial_Share_Price_USD = Get(price_result.price)
                       /\ nearest_to(r.Shares_Purchased, shares, 100)
                       /\ nearest_to(r.Dividends_Collected_USD, paid.total_dividends, 1)
                       /\ r.Verified \notin {STATUS_NO_DATA, STATUS_ERROR}

\* C13, its case: 10000.00 invested at 100.00, every current-price lookup
\* fails, one dividend of 0.75 was paid in the period
C13_RecordWithoutCurrentPrice ==
    /\ rec.status = "returned"
    /\ rec.investment_amount = INVESTMENT_PER_ETF
    /\ \A k \in 1..Len(rec.script.current) : rec.script.current[k].history.err
    /\ ~IsNone(Get(rec.out).etf_data)
    /\ Get(Get(rec.out).etf_data).Initial_Share_Price_USD = 10000
    /\ Get(Get(rec.out).etf_data).Shares_Purchased = 10000
    /\ Get(Get(rec.out).etf_data).Dividends_Collected_USD = 7500
    /\ Get(Get(rec.out).etf_data).Gain_Loss_USD = 0
    /\ Get(Get(rec.out).etf_data).Current_Share_Price_USD = 0

\* C11: a record with status VERIFIED has an initial price that at least
\* two retrieval methods gave, the prices agreeing within 1% of their mean.
\* The retrievals behind a record of process_etf_data are the downloads of
\* the resolver that carried rows.
C11_VerifiedMeansCrossValidated ==
    (rec.status = "returned" /\ ~IsNone(Get(rec.out).etf_data)) =>
        LET r      == Get(Get(rec.out).etf_data)
            calls  == hist_run(hist_enter(rec.symbol, rec.start_date), rec.script.hist).calls
            quoted == SelectSeq(calls, LAMBDA c : c.outcome = "data")
            prices == [k \in 1..Len(quoted) |-> Get(quoted[k].first).value]
        IN  r.Verified = STATUS_VERIFIED =>
                /\ Len(prices) >= 2
                /\ \A k \in 1..Len(prices) :
                       100 * AbsDiff(Len(prices) * prices[k], Sum(prices)) <= Sum(prices)

\* C11, the case that breaks it: a record of process_etf_data, VERIFIED,
\* whose price is the first row of the one download that carried rows
C11_VerifiedBySingleRetrieval ==
    /\ rec.status = "returned"
    /\ ~IsNone(Get(rec.out).etf_data)
    /\ Get(Get(rec.out).etf_data).Verified = STATUS_VERIFIED
    /\ Get(Get(rec.out).etf_data).Initial_Share_Price_USD = 10000
    /\ LET calls == hist_run(hist_enter(rec.symbol, rec.start_date), rec.script.hist).calls
       IN  Cardinality({k \in 1..Len(calls) : calls[k].outcome = "data"}) = 1

\* C18 as stated: every record, the ones built without a current price
\* included, has value = shares x price, gain/loss = value - investment and
\* total return = gain/loss + dividends (within the rounding of the stored
\* fields).
C18_AllRecordsBalance ==
    (rec.status = "returned" /\ ~IsNone(Get(rec.out).etf_data)) =>
        LET r == Get(Get(rec.out).etf_data)
        IN  /\ 2 * AbsDiff(100 * r.Current_Portfolio_Value_USD,
                           r.Shares_Purchased * r.Current_Share_Price_USD)
                   <= 100 + r.Current_Share_Price_USD
            /\ AbsDiff(r.Gain_Loss_USD + rec.investment_amount * 100,
                       r.Current_Portfolio_Value_USD) <= 1
            /\ AbsDiff(r.Total_Return_USD,
                       r.Gain_Loss_USD + r.Dividends_Collected_USD) <= 1

\* C18: every record has value = shares x price and total return =
\* gain/loss + dividends (within the rounding of the stored fields); a
\* record with a current price has gain/loss = value - investment, and a
\* record without one has value 0 and gain/loss 0.
C18_RecordsBalanceWhenPriced ==
    (rec.status = "returned" /\ ~IsNone(Get(rec.out).etf_data)) =>
        LET r == Get(Get(rec.out).etf_data)
        IN  /\ 2 * AbsDiff(100 * r.Current_Portfolio_Value_USD,
                           r.Shares_Purchased * r.Current_Share_Price_USD)
                   <= 100 + r.Current_Share_Price_USD
            /\ AbsDiff(r.Total_Return_USD,
                       r.Gain_Loss_USD + r.Dividends_Collected_USD) <= 1
            /\ IF r.Current_Share_Price_USD # 0
               THEN AbsDiff(r.Gain_Loss_USD + rec.investment_amount * 100,
                            r.Current_Portfolio_Value_USD) <= 1
               ELSE r.Current_Portfolio_Value_USD = 0 /\ r.Gain_Loss_USD = 0

\* C18, its case: a record with both prices and dividends: 100 shares
\* bought at 100.00 and now at 110.00, 1000.00 gained, 150.00 collected
C18_PricedRecordWithDividends ==
    /\ rec.status = "returned"
    /\ ~IsNone(Get(rec.out).etf_data)
    /\ Get(Get(rec.out).etf_data).Shares_Purchased = 10000
    /\ Get(Get(rec.out).etf_data).Current_Share_Price_USD = 11000
    /\ Get(Get(rec.out).etf_data).Current_Portfolio_Value_USD = 1100000
    /\ Get(Get(rec.out).etf_data).Gain_Loss_USD = 100000
    /\ Get(Get(rec.out).etf_data).Dividends_Collected_USD = 15000
    /\ Get(Get(rec.out).etf_data).Total_Return_USD = 115000

\* C19: a record whose status is neither NO DATA nor ERROR has an initial
\* price above 0 and shares = investment / initial price within the
\* rounding of the two stored fields.
C19_SharesFromInitialPrice ==
    (rec.status = "returned" /\ ~IsNone(Get(rec.out).etf_data)) =>
        LET r == Get(Get(rec.out).etf_data)
        IN  r.Verified \notin {STATUS_NO_DATA, STATUS_ERROR} =>
                /\ r.Initial_Share_Price_USD > 0
                /\ 2 * AbsDiff(r.Shares_Purchased * r.Initial_Share_Price_USD,
                               100 * rec.investment_amount * 100)
                       <= r.Initial_Share_Price_USD + r.Shares_Purchased + 2

\* C19, its case: a record of 10000.00 invested at 50.00: 200 shares
C19_SharesOfExampleHolding ==
    /\ rec.status = "returned"
    /\ rec.investment_amount = INVESTMENT_PER_ETF
    /\ ~IsNone(Get(rec.out).etf_data)
    /\ Get(Get(rec.out).etf_data).Verified = STATUS_VERIFIED
    /\ Get(Get(rec.out).etf_data).Initial_Share_Price_USD = 5000
    /\ Get(Get(rec.out).etf_data).Shares_Purchased = 20000

\* C17: the record is built from the resolved date and price: the dividends
\* collected are those whose ex-date lies between the resolved start date
\* and the end date (a payment between the preferred date and a later
\* resolved date is not counted), and the shares are the investment divided
\* by the resolved price.
C17_ResolvedDateAndPriceUsed ==
    (rec.status = "returned" /\ ~IsNone(Get(rec.out).etf_data)) =>
        LET price_result == get_historical_price_with_fallback(rec.symbol, rec.start_date,
                                                               rec.script.hist)
            r        == Get(Get(rec.out).etf_data)
            price    == Get(price_result.price)
            series   == rec.script.dividends[1]
            offset   == IF IsNone(series.tz) THEN 0 ELSE Get(series.tz)
            first    == to_datetime(Get(price_result.date)) * 24
            last     == to_datetime(rec.end_date) * 24
            counted  == SelectSeq(series.rows,
                                  LAMBDA row : /\ row.date * 24 - offset >= first
                                               /\ row.date * 24 - offset <= last)
            per_share == Sum([k \in 1..Len(counted) |-> counted[k].value])
        IN  /\ r.Actual_Start_Date = price_result.date
            /\ r.Initial_Share_Price_USD = price
            /\ nearest_to(r.Shares_Purchased,
                          FracDiv(FracOfInt(rec.investment_amount * 100), FracOfInt(price)),
                          100)
            /\ nearest_to(r.Dividends_Collected_USD,
                          FracDiv(FracOfInt(per_share * rec.investment_amount * 100),
                                  FracOfInt(price)),
                          1)

\* C17, its case: the first trading day is 62 days after the preferred date;
\* of the payments of 0.75 made 30 and 120 days after the preferred date
\* only the second is collected, on 100 shares
C17_EarlierDividendNotCounted ==
    /\ rec.status = "returned"
    /\ rec.investment_amount = INVESTMENT_PER_ETF
    /\ ~IsNone(Get(rec.out).etf_data)
    /\ Len(rec.script.dividends[1].rows) = 2
    /\ Get(Get(rec.out).etf_data).Is_Fallback = Some(TRUE)
    /\ Get(Get(rec.out).etf_data).Actual_Start_Date
           = Some(strftime_ymd(to_datetime(rec.start_date) + 62))
    /\ Get(Get(rec.out).etf_data).Shares_Purchased = 10000
    /\ Get(Get(rec.out).etf_data).Dividends_Collected_USD = 7500

\* C20: with nothing invested and both prices resolved the call returns a
\* record whose gain/loss percent is 0 (the division is guarded).
C20_ZeroInvestmentGivesZeroPercent ==
    rec.status = "returned" =>
        LET price_result == get_historical_price_with_fallback(rec.symbol, rec.start_date,
                                                               rec.script.hist)
            current_data == get_current_market_price(rec.symbol, rec.script.current)
            out          == Get(rec.out)
        IN  (/\ rec.investment_amount = 0
             /\ IsNone(price_result.error)
             /\ Get(price_result.price) > 0
             /\ current_data.success) =>
                /\ ~out.raised
                /\ ~IsNone(out.etf_data)
                /\ Get(out.etf_data).Gain_Loss_Pct = 0

\* C20, the case that breaks it: nothing invested, both prices resolved,
\* and the call ends in the exception of line 363
C20_ZeroInvestmentRaises ==
    /\ rec.status = "returned"
    /\ rec.investment_amount = 0
    /\ get_historical_price_with_fallback(rec.symbol, rec.start_date,
                                          rec.script.hist).price = Some(10000)
    /\ get_current_market_price(rec.symbol, rec.script.current).success
    /\ Get(rec.out).raised
    /\ Get(rec.out).error = Some("float division by zero")

\* C22: on the full success path gain/loss percent = gain/loss /
\* investment x 100 and total return percent = total return / investment
\* x 100 (within the rounding of the stored fields); 10000.00 invested at
\* 50.00, now at 55.00 with 150.00 of dividends, gives 200.00 shares, value
\* 11000.00, gain 1000.00 (10.0 %), total return 1150.00 (11.5 %).
C22_PercentagesOfInvestment ==
    (rec.status = "returned" /\ ~IsNone(Get(rec.out).etf_data)) =>
        LET r   == Get(Get(rec.out).etf_data)
            inv == rec.investment_amount * 100
        IN  /\ r.Current_Share_Price_USD # 0 =>
                   /\ 2 * AbsDiff(r.Gain_Loss_Pct * inv, 1000 * r.Gain_Loss_USD)
                          <= inv + 1000
                   /\ 2 * AbsDiff(r.Total_Return_Pct * inv, 1000 * r.Total_Return_USD)
                          <= inv + 1000
            /\ (/\ rec.investment_amount = 10000
                /\ r.Initial_Share_Price_USD = 5000
                /\ r.Current_Share_Price_USD = 5500
                /\ r.Dividends_Collected_USD = 15000) =>
                   /\ r.Shares_Purchased = 20000
                   /\ r.Current_Portfolio_Value_USD = 1100000
                   /\ r.Gain_Loss_USD = 100000
                   /\ r.Gain_Loss_Pct = 100
                   /\ r.Total_Return_USD = 115000
                   /\ r.Total_Return_Pct = 115

\* C22, its case: the holding of the example
C22_ExampleHolding ==
    /\ rec.status = "returned"
    /\ rec.investment_amount = 10000
    /\ ~IsNone(Get(rec.out).etf_data)
    /\ Get(Get(rec.out).etf_data).Initial_Share_Price_USD = 5000
    /\ Get(Get(rec.out).etf_data).Current_Share_Price_USD = 5500
    /\ Get(Get(rec.out).etf_data).Dividends_Collected_USD = 15000
    /\ Get(Get(rec.out).etf_data).Total_Return_Pct = 115

\* C26: within one call the current price and the dividends are looked up
\* only after the historical resolver has given a price, in that order;
\* when the resolver fails the call returns (None, error) at once, with
\* neither of the two lookups made.
C26_LookupsAfterResolvedPrice ==
    LET calls  == rec.calls
        failed == \A k \in 1..Len(rec.script.hist) :
                      \A w \in 1..2 : \/ rec.script.hist[k][w].err
                                       \/ rec.script.hist[k][w].rows = <<>>
        at(name) == {k \in 1..Len(calls) : calls[k] = name}
    IN  /\ \A k \in at("get_current_market_price") \cup at("get_dividends_for_period") :
               /\ ~failed
               /\ \E h \in at("get_historical_price_with_fallback") : h < k
        /\ \A d \in at("get_dividends_for_period") :
               \E c \in at("get_current_market_price") : c < d
        /\ \A name \in {"get_historical_price_with_fallback", "get_current_market_price",
                         "get_dividends_for_period"} : Cardinality(at(name)) <= 1
        /\ (failed /\ calls # <<>>) =>
               /\ rec.status = "returned"
               /\ calls = <<"get_historical_price_with_fallback">>
               /\ ~Get(rec.out).raised
               /\ IsNone(Get(rec.out).etf_data)
               /\ ~IsNone(Get(rec.out).error)
        /\ rec.status = "returned" =>
               Get(rec.out) = process_etf_data(rec.symbol, rec.start_date, rec.end_date,
                                               rec.investment_amount, rec.script)

\* C26, its case: every download of the historical resolver failed, and the
\* call has returned after that one lookup
C26_ReturnedAfterResolverFailure ==
    /\ rec.status = "returned"
    /\ \A k \in 1..Len(rec.script.hist) : \A w \in 1..2 : rec.script.hist[k][w].err
    /\ rec.calls = <<"get_historical_price_with_fallback">>
    /\ IsNone(Get(rec.out).etf_data)
    /\ ~IsNone(Get(rec.out).error)

-----------------------------------------------------------------------------
(* Claims about get_international_ticker_formats, checked under SpecFormats *)

\* C21: the list returned begins with the symbol as given and has no
\* duplicates; .TO, .TSE, .AX, .L follow in that order exactly when the
\* symbol does not end in .TO, .TSE, .AX, .L or .NE (an already suffixed
\* symbol alone gives the singleton); the .NE form comes last, exactly for
\* HHIS and MSTE.
C21_ExpansionOrder ==
    fmt.status = "returned" =>
        LET s        == fmt.symbol
            out      == Get(fmt.result)
            suffixed == \E e \in {".TO", ".TSE", ".AX", ".L", ".NE"} :
                            /\ Len(s) >= Len(e)
                            /\ SubSeq(s, Len(s) - Len(e) + 1, Len(s)) = e
            neo      == s = "HHIS" \/ s = "MSTE"
        IN  /\ out[1] = s
            /\ \A i, j \in 1..Len(out) : i # j => out[i] # out[j]
            /\ out = <<s>>
                      \o (IF suffixed THEN <<>>
                          ELSE <<s \o ".TO", s \o ".TSE", s \o ".AX", s \o ".L">>)
                      \o (IF neo THEN <<s \o ".NE">> ELSE <<>>)
            /\ out = get_international_ticker_formats(s)

\* C21, its case: HHIS gives the base, the four suffixed formats and the
\* NEO form last
C21_NeoFormLast ==
    /\ fmt.status = "returned"
    /\ fmt.symbol = "HHIS"
    /\ fmt.result = Some(<<"HHIS", "HHIS.TO", "HHIS.TSE", "HHIS.AX", "HHIS.L", "HHIS.NE">>)

=============================================================================
